---- MODULE Spec2Model ----
(***************************************************************************)
(* A model of ghostty-config's structure-preserving config document:       *)
(* UserConfig (src/config/model.rs) and its file codec                     *)
(* (src/config/file_io.rs).                                                *)
(*                                                                         *)
(* A Rust String is modelled as a sequence of one-character strings, so    *)
(* that lines(), trim(), starts_with() and split_once() are computed as    *)
(* the standard library computes them.                                     *)
(***************************************************************************)
EXTENDS Integers, Sequences, FiniteSets, TLC

VARIABLES
    entries,    \* UserConfig.entries: the in-memory document
    disk,       \* the file at UserConfig.file_path: whether it exists, its
                \* content and the limits of the process that writes it
    op,         \* the last operation performed, with its arguments and result
    pre,        \* entries and disk as they were before the last operation
    unsaved,    \* AppState.unsaved: the set of keys with unsaved changes
    locks,      \* the two RwLocks of AppState: holders and waiters
    reqs        \* the requests being served: handler, position and locals

vars == <<entries, disk, op, pre, unsaved, locks, reqs>>

\* the state of the server around the document
server == <<unsaved, locks, reqs>>

----------------------------------------------------------------------------
(* Bounds of the model. *)

\* longest file content, in characters, of the codec specification
MaxText == 5
\* most entries a document is grown to by set and push
MaxEntries == 3
\* most entries of a document built for the write/read-back scenario
MaxBuilt == 2
\* the requests the server handles at the same time
NumRequests == 2

----------------------------------------------------------------------------
(* Strings. *)

\* The characters file contents are drawn from: an ordinary character, the
\* delimiter, the comment marker, and white space of each kind the codec
\* treats differently (space, line feed, carriage return).
Chars == {"a", "=", "#", " ", "\n", "\r"}

\* char::is_whitespace, on the characters that occur in the model.
IsWhitespace(c) == c \in {" ", "\t", "\n", "\r", "\f"}

\* str::trim_start and str::trim_end.
RECURSIVE trim_start(_)
trim_start(s) ==
    IF s = <<>> THEN <<>>
    ELSE IF IsWhitespace(Head(s)) THEN trim_start(Tail(s))
    ELSE s

RECURSIVE trim_end(_)
trim_end(s) ==
    IF s = <<>> THEN <<>>
    ELSE IF IsWhitespace(s[Len(s)]) THEN trim_end(SubSeq(s, 1, Len(s) - 1))
    ELSE s

\* str::trim.
trim(s) == trim_end(trim_start(s))

\* str::starts_with(char).
starts_with(s, c) == s # <<>> /\ Head(s) = c

\* str::find(char): the index of the first occurrence of c in s, 0 for None.
find_char(s, c) ==
    IF \E i \in 1..Len(s) : s[i] = c
    THEN CHOOSE i \in 1..Len(s) :
             s[i] = c /\ \A j \in 1..(i - 1) : s[j] # c
    ELSE 0

\* str::lines: the text is cut after every "\n"; a piece loses its final "\n"
\* and then one "\r" before it. A last piece without "\n" is kept as it is
\* (a bare trailing "\r" included), and no empty line follows a final "\n".
RECURSIVE lines(_)
lines(s) ==
    IF s = <<>> THEN <<>>
    ELSE LET i == find_char(s, "\n") IN
         IF i = 0 THEN <<s>>
         ELSE LET line == SubSeq(s, 1, i - 1)
                  bare == IF line # <<>> /\ line[Len(line)] = "\r"
                          THEN SubSeq(line, 1, Len(line) - 1)
                          ELSE line
              IN <<bare>> \o lines(SubSeq(s, i + 1, Len(s)))

----------------------------------------------------------------------------
(* ConfigEntry and UserConfig (src/config/model.rs). *)

Comment(text) == [kind |-> "Comment", text |-> text]
BlankLine == [kind |-> "BlankLine"]
KeyValue(k, v) == [kind |-> "KeyValue", key |-> k, value |-> v]

\* Option<&str>
None == [some |-> FALSE, val |-> <<>>]
Some(v) == [some |-> TRUE, val |-> v]

IsKey(e, key) == e.kind = "KeyValue" /\ e.key = key

\* UserConfig::new
new == <<>>

\* A get that searches from the front (the first occurrence wins).
RECURSIVE get_first(_, _)
get_first(es, key) ==
    IF es = <<>> THEN None
    ELSE IF IsKey(Head(es), key) THEN Some(Head(es).value)
    ELSE get_first(Tail(es), key)

\* UserConfig::get: the entries are searched from the end.
RECURSIVE get(_, _)
get(es, key) ==
    IF es = <<>> THEN None
    ELSE IF IsKey(es[Len(es)], key) THEN Some(es[Len(es)].value)
    ELSE get(SubSeq(es, 1, Len(es) - 1), key)

\* UserConfig::get_all: filter_map over the entries, in order.
RECURSIVE get_all(_, _)
get_all(es, key) ==
    IF es = <<>> THEN <<>>
    ELSE IF IsKey(Head(es), key) THEN <<Head(es).value>> \o get_all(Tail(es), key)
    ELSE get_all(Tail(es), key)

\* The loop of UserConfig::set: the first KeyValue entry with this key gets
\* the value and the function returns; set_loop is the entries so far, and
\* found tells whether the loop returned early.
RECURSIVE set_loop(_, _, _)
set_loop(es, key, value) ==
    IF es = <<>> THEN [found |-> FALSE, entries |-> <<>>]
    ELSE IF IsKey(Head(es), key)
         THEN [found |-> TRUE, entries |-> <<KeyValue(key, value)>> \o Tail(es)]
         ELSE LET r == set_loop(Tail(es), key, value)
              IN [found |-> r.found, entries |-> <<Head(es)>> \o r.entries]

\* A set whose loop does not return at the first match: every entry of the
\* key gets the value.
set_every(es, key, value) ==
    IF \E i \in 1..Len(es) : IsKey(es[i], key)
    THEN [i \in 1..Len(es) |->
             IF IsKey(es[i], key) THEN KeyValue(key, value) ELSE es[i]]
    ELSE Append(es, KeyValue(key, value))

\* A set that updates the last entry of the key, the one get reads.
set_last(es, key, value) ==
    IF \E i \in 1..Len(es) : IsKey(es[i], key)
    THEN LET last == CHOOSE i \in 1..Len(es) :
                         /\ IsKey(es[i], key)
                         /\ \A j \in (i + 1)..Len(es) : ~IsKey(es[j], key)
         IN [es EXCEPT ![last] = KeyValue(key, value)]
    ELSE Append(es, KeyValue(key, value))

\* A set that never looks for an existing entry.
set_append(es, key, value) == Append(es, KeyValue(key, value))

\* UserConfig::set
set(es, key, value) ==
    LET r == set_loop(es, key, value)
    IN IF r.found THEN r.entries ELSE Append(es, KeyValue(key, value))

\* A remove that deletes the first entry of the key only.
RECURSIVE remove_first(_, _)
remove_first(es, key) ==
    IF es = <<>> THEN <<>>
    ELSE IF IsKey(Head(es), key) THEN Tail(es)
    ELSE <<Head(es)>> \o remove_first(Tail(es), key)

\* UserConfig::remove: retain every entry that is not a KeyValue of this key.
RECURSIVE remove(_, _)
remove(es, key) ==
    IF es = <<>> THEN <<>>
    ELSE IF IsKey(Head(es), key) THEN remove(Tail(es), key)
    ELSE <<Head(es)>> \o remove(Tail(es), key)

----------------------------------------------------------------------------
(* The file codec (src/config/file_io.rs). *)

\* the file: whether it exists, its text, the size the process may give
\* it (0: any size, else RLIMIT_FSIZE) and what the process was started to
\* do on the signal SIGXFSZ of a write at that size ("default": it is
\* terminated; "ignore": the write returns an error)
NoFile ==
    [exists |-> FALSE, content |-> <<>>, limit |-> 0, xfsz |-> "default"]
File(text) ==
    [exists |-> TRUE, content |-> text, limit |-> 0, xfsz |-> "default"]

\* A parse that stores the trimmed line in a comment.
parse_line_trimmed(line) ==
    IF trim(line) = <<>> THEN BlankLine
    ELSE IF starts_with(line, "#") THEN Comment(trim(line))
    ELSE LET i == find_char(line, "=") IN
         IF i # 0
         THEN KeyValue(trim(SubSeq(line, 1, i - 1)),
                       trim(SubSeq(line, i + 1, Len(line))))
         ELSE Comment(trim(line))

\* The body of read_config's loop: the entry one line becomes.
parse_line(line) ==
    IF trim(line) = <<>> THEN BlankLine
    ELSE IF starts_with(line, "#") THEN Comment(line)
    ELSE LET i == find_char(line, "=") IN
         IF i # 0
         THEN KeyValue(trim(SubSeq(line, 1, i - 1)),
                       trim(SubSeq(line, i + 1, Len(line))))
         ELSE Comment(line)

\* A read that rejects the lines it cannot parse instead of keeping them.
read_config_strict(file) ==
    IF ~file.exists THEN new
    ELSE LET ls == lines(file.content)
             Parsed(l) == \/ trim(l) = <<>>
                          \/ starts_with(l, "#")
                          \/ find_char(l, "=") # 0
             ok == SelectSeq(ls, Parsed)
         IN [i \in 1..Len(ok) |-> parse_line(ok[i])]

\* read_config: the entries of the document read from the file; a path that
\* does not exist gives the empty document.  The content is cut into its
\* lines once (ls) and every line becomes one entry.
read_config(file) ==
    IF ~file.exists THEN new
    ELSE CHOOSE es \in {[i \in 1..Len(ls) |-> parse_line(ls[i])] :
                            ls \in {lines(file.content)}} : TRUE

\* A writer that emits key=value without the spaces.
write_entry_tight(e) ==
    IF e.kind = "Comment" THEN e.text \o <<"\n">>
    ELSE IF e.kind = "BlankLine" THEN <<"\n">>
    ELSE e.key \o <<"=">> \o e.value \o <<"\n">>

\* A writer that emits nothing for a blank line.
write_entry_no_blank(e) ==
    IF e.kind = "Comment" THEN e.text \o <<"\n">>
    ELSE IF e.kind = "BlankLine" THEN <<>>
    ELSE e.key \o <<" ", "=", " ">> \o e.value \o <<"\n">>

\* A writer that does not end a key-value line.
write_entry_unterminated(e) ==
    IF e.kind = "Comment" THEN e.text \o <<"\n">>
    ELSE IF e.kind = "BlankLine" THEN <<"\n">>
    ELSE e.key \o <<" ", "=", " ">> \o e.value

\* The body of write_config's loop: what one entry appends to the output.
write_entry(e) ==
    IF e.kind = "Comment" THEN e.text \o <<"\n">>
    ELSE IF e.kind = "BlankLine" THEN <<"\n">>
    ELSE e.key \o <<" ", "=", " ">> \o e.value \o <<"\n">>

\* write_config: the content written to the file.
RECURSIVE write_config(_)
write_config(es) ==
    IF es = <<>> THEN <<>>
    ELSE write_entry(Head(es)) \o write_config(Tail(es))

----------------------------------------------------------------------------
(* The operations, as actions.  Every action records itself in op (name,   *)
(* arguments, result, the operation it follows, and whether it repeats the *)
(* previous operation with the same arguments) and the state it started    *)
(* from in pre.                                                            *)

\* a lock nobody holds or waits for, a request slot that serves nothing, and
\* the server as main builds it: no unsaved key and both locks free
FreeLock == [writer |-> 0, readers |-> {}, queue |-> <<>>]
Requests == 1..NumRequests
NoRequest ==
    [handler |-> "", pc |-> 0, key |-> <<>>, value |-> <<>>,
     local |-> <<>>, sent |-> 0, hint |-> 0, cap |-> 0, buf |-> <<>>,
     body |-> <<>>, ret |-> "", overlap |-> {}]
ServerStart ==
    /\ unsaved = {}
    /\ locks = [user_config |-> FreeLock, unsaved |-> FreeLock]
    /\ reqs = [r \in Requests |-> NoRequest]

Did(name, key, value, ret) ==
    [name |-> name, key |-> key, value |-> value, ret |-> ret,
     after |-> op.name,
     again |-> op.name = name /\ op.key = key /\ op.value = value]

Before == [entries |-> entries, disk |-> disk]

\* config.get(key)
Get(key) ==
    /\ op' = Did("get", key, <<>>, get(entries, key))
    /\ pre' = Before
    /\ UNCHANGED <<entries, disk>>
    /\ UNCHANGED server

\* config.get_all(key)
GetAll(key) ==
    /\ op' = Did("get_all", key, <<>>, get_all(entries, key))
    /\ pre' = Before
    /\ UNCHANGED <<entries, disk>>
    /\ UNCHANGED server

\* config.set(key, value); bound is the longest document the model grows.
Set(key, value, bound) ==
    /\ Len(set(entries, key, value)) <= bound
    /\ entries' = set(entries, key, value)
    /\ op' = Did("set", key, value, None)
    /\ pre' = Before
    /\ UNCHANGED disk
    /\ UNCHANGED server

\* config.remove(key)
Remove(key) ==
    /\ entries' = remove(entries, key)
    /\ op' = Did("remove", key, <<>>, None)
    /\ pre' = Before
    /\ UNCHANGED disk
    /\ UNCHANGED server

\* config.entries.push(entry)
Push(e, bound) ==
    /\ Len(entries) < bound
    /\ entries' = Append(entries, e)
    /\ op' = Did("push", <<>>, <<>>, None)
    /\ pre' = Before
    /\ UNCHANGED disk
    /\ UNCHANGED server

\* config = read_config(path)
ReadConfig ==
    /\ entries' = read_config(disk)
    /\ op' = Did("read", <<>>, <<>>, None)
    /\ pre' = Before
    /\ UNCHANGED disk
    /\ UNCHANGED server

\* write_config(&config)
WriteConfig ==
    /\ disk' = File(write_config(entries))
    /\ op' = Did("write", <<>>, <<>>, None)
    /\ pre' = Before
    /\ UNCHANGED entries
    /\ UNCHANGED server

Fresh == [name |-> "new", key |-> <<>>, value |-> <<>>, ret |-> None,
          after |-> "", again |-> FALSE]

----------------------------------------------------------------------------
(* Spec: the in-memory document.  It starts as UserConfig::new and is      *)
(* driven through get, get_all, set, remove and push with the keys,        *)
(* values and entries below, each of which read_config can produce.        *)

Keys == {<<"a">>, <<"b">>}
Values == {<<"x">>, <<"y">>}
Entries ==
    {KeyValue(k, v) : k \in Keys, v \in Values}
        \cup {Comment(<<"#", "c">>), Comment(<<"j">>), BlankLine}

Init ==
    /\ entries = new
    /\ disk = NoFile
    /\ op = Fresh
    /\ pre = [entries |-> new, disk |-> NoFile]
    /\ ServerStart

Next ==
    \/ \E k \in Keys : Get(k)
    \/ \E k \in Keys : GetAll(k)
    \/ \E k \in Keys, v \in Values : Set(k, v, MaxEntries)
    \/ \E k \in Keys : Remove(k)
    \/ \E e \in Entries : Push(e, MaxEntries)

Spec == Init /\ [][Next]_vars

----------------------------------------------------------------------------
(* SpecFile: the codec on file contents.  The file holds any text of at    *)
(* most MaxText characters, or does not exist; the document is read from   *)
(* it and written back, any number of times.                               *)

RECURSIVE Texts(_)
Texts(n) ==
    IF n = 0 THEN {<<>>}
    ELSE LET shorter == Texts(n - 1)
         IN shorter \cup {Append(t, c) : t \in {u \in shorter : Len(u) = n - 1},
                                         c \in Chars}

InitFile ==
    /\ entries = new
    /\ disk \in {NoFile} \cup {File(t) : t \in Texts(MaxText)}
    /\ op = Fresh
    /\ pre = [entries |-> new, disk |-> disk]
    /\ ServerStart

NextFile ==
    \/ ReadConfig
    \/ WriteConfig

SpecFile == InitFile /\ [][NextFile]_vars

----------------------------------------------------------------------------
(* SpecBuild: a document is built in memory with set and push, written to  *)
(* a file that did not exist, and read back (the scenario of               *)
(* test_set_then_write_roundtrip and test_write_and_read_back).  The       *)
(* strings are the ordinary ones and the ones the text format cannot hold: *)
(* empty, padded with white space, containing the delimiter, the comment   *)
(* marker or a line break.                                                 *)

BuildKeys ==
    {<<"a">>, <<>>, <<"a", " ">>, <<"=">>, <<"#">>, <<"a", "\n", "a">>}
BuildValues ==
    {<<"a">>, <<>>, <<" ", "a">>, <<"a", "\n", "a">>}
BuildPushed ==
    {Comment(<<"#", "a">>), Comment(<<"a", "=", "a">>), Comment(<<"\n">>),
     Comment(<<>>), BlankLine}

Building == op.name \in {"new", "set", "push"}

InitBuild ==
    /\ entries = new
    /\ disk = NoFile
    /\ op = Fresh
    /\ pre = [entries |-> new, disk |-> NoFile]
    /\ ServerStart

NextBuild ==
    \/ Building /\ \E k \in BuildKeys, v \in BuildValues : Set(k, v, MaxBuilt)
    \/ Building /\ \E e \in BuildPushed : Push(e, MaxBuilt)
    \/ Building /\ WriteConfig
    \/ op.name = "write" /\ ReadConfig

SpecBuild == InitBuild /\ [][NextBuild]_vars

----------------------------------------------------------------------------
(* Vocabulary of the claims, independent of the operators above. *)

\* the positions of the KeyValue entries of key k
KeyIdx(es, k) == {i \in 1..Len(es) : es[i].kind = "KeyValue" /\ es[i].key = k}
Min(S) == CHOOSE i \in S : \A j \in S : i <= j
Max(S) == CHOOSE i \in S : \A j \in S : j <= i
\* the j-th smallest element of S
Nth(S, j) == CHOOSE i \in S : Cardinality({x \in S : x <= i}) = j
\* the entries of es at the positions S, in order
Pick(es, S) == [j \in 1..Cardinality(S) |-> es[Nth(S, j)]]

----------------------------------------------------------------------------
(* Claims about the in-memory document, under Spec. *)

\* C3: get(k) returns the value of the last KeyValue entry whose key is k,
\* None when there is none; get_all(k) returns the values of all KeyValue
\* entries of key k in document order, duplicates included.
C3_GetLastGetAllInOrder ==
    LET I == KeyIdx(entries, op.key) IN
    /\ op.name = "get" =>
           op.ret = IF I = {} THEN None ELSE Some(entries[Max(I)].value)
    /\ op.name = "get_all" =>
           /\ Len(op.ret) = Cardinality(I)
           /\ \A j \in 1..Len(op.ret) : op.ret[j] = entries[Nth(I, j)].value

\* get has answered, right after get_all, on a document that holds two
\* entries of the key with different values.
C3_Witness ==
    LET I == KeyIdx(entries, op.key) IN
    /\ op.name = "get" /\ op.after = "get_all"
    /\ Cardinality(I) >= 2
    /\ entries[Min(I)].value # entries[Max(I)].value
    /\ op.ret = Some(entries[Max(I)].value)

\* C4: set(k, v) changes exactly one thing: with an entry of key k present,
\* the first such entry gets value v and length and order are kept;
\* otherwise KeyValue(k, v) is appended.  Every other entry is unchanged and
\* none is removed.
C4_SetFrame ==
    op.name = "set" =>
        LET P == pre.entries
            I == KeyIdx(P, op.key)
        IN IF I # {}
           THEN /\ Len(entries) = Len(P)
                /\ entries[Min(I)] = KeyValue(op.key, op.value)
                /\ \A i \in 1..Len(P) : i # Min(I) => entries[i] = P[i]
           ELSE /\ Len(entries) = Len(P) + 1
                /\ entries[Len(entries)] = KeyValue(op.key, op.value)
                /\ \A i \in 1..Len(P) : entries[i] = P[i]

\* set has changed the value of a first entry that is not the first line and
\* is followed by a duplicate of the key.
C4_Witness ==
    LET P == pre.entries
        I == KeyIdx(P, op.key)
    IN /\ op.name = "set"
       /\ Cardinality(I) >= 2
       /\ Min(I) > 1
       /\ P[Min(I)].value # op.value
       /\ entries[Max(I)] = P[Max(I)]

\* C5 as stated: immediately after set(k, v), get(k) returns v, also on a
\* document that holds several entries of k.
C5_SetThenGetReturnsValue ==
    op.name = "set" => get(entries, op.key) = Some(op.value)

\* C5, amended: immediately after set(k, v), get(k) returns v when the
\* document held at most one entry of k before the set; when it held several,
\* get(k) returns the value of the last of them, which set left unchanged.
C5_SetThenGet ==
    op.name = "set" =>
        LET P == pre.entries
            I == KeyIdx(P, op.key)
        IN get(entries, op.key) =
               IF Cardinality(I) <= 1 THEN Some(op.value)
               ELSE Some(P[Max(I)].value)

\* set(k, v) has acted on a document with several entries of k whose last
\* value is not v: get(k) does not return v.
C5_Witness ==
    LET I == KeyIdx(pre.entries, op.key) IN
    /\ op.name = "set"
    /\ Cardinality(I) >= 2
    /\ pre.entries[Max(I)].value # op.value
    /\ get(entries, op.key) # Some(op.value)

\* C6 as stated: set(k, v) applied twice yields the document of applying it
\* once, and that document holds a single entry of k, with value v.
C6_SetTwiceSingleEntry ==
    op.name = "set" /\ op.again =>
        LET I == KeyIdx(entries, op.key) IN
        /\ entries = pre.entries
        /\ Cardinality(I) = 1
        /\ \A i \in I : entries[i].value = op.value

\* C6, amended: set(k, v) applied twice yields the document of applying it
\* once; after set(k, v) the first entry of k has value v, and the document
\* holds one entry of k if it held none before and as many as before
\* otherwise (a single one only if it held at most one).
C6_SetIdempotent ==
    op.name = "set" =>
        LET I == KeyIdx(entries, op.key)
            J == KeyIdx(pre.entries, op.key)
        IN /\ op.again => entries = pre.entries
           /\ I # {}
           /\ entries[Min(I)].value = op.value
           /\ Cardinality(I) = IF J = {} THEN 1 ELSE Cardinality(J)

\* the same set(k, v) has been applied a second time, on a document that
\* keeps two entries of k.
C6_Witness ==
    /\ op.name = "set" /\ op.again
    /\ Cardinality(KeyIdx(entries, op.key)) >= 2
    /\ entries = pre.entries

\* C7: after remove(k), get(k) is None and get_all(k) is empty however many
\* entries of k there were, and the remaining entries are exactly the former
\* entries that are not KeyValue entries of k, in their original order.
C7_RemoveTotal ==
    op.name = "remove" =>
        LET P == pre.entries
            Kept == (1..Len(P)) \ KeyIdx(P, op.key)
        IN /\ get(entries, op.key) = None
           /\ get_all(entries, op.key) = <<>>
           /\ entries = Pick(P, Kept)

\* remove(k) has deleted two entries of k and kept another entry.
C7_Witness ==
    /\ op.name = "remove"
    /\ Cardinality(KeyIdx(pre.entries, op.key)) >= 2
    /\ Len(entries) >= 1
    /\ Len(entries) = Len(pre.entries) - 2

----------------------------------------------------------------------------
(* Vocabulary of the claims about texts: the lines of a text, read off the *)
(* positions of its line feeds.                                            *)

Feeds(t) == {i \in 1..Len(t) : t[i] = "\n"}
Terminated(t) == t = <<>> \/ t[Len(t)] = "\n"
NumLines(t) == Cardinality(Feeds(t)) + IF Terminated(t) THEN 0 ELSE 1
\* line j up to its line feed (or the end of the text)
RawLine(t, j) ==
    LET from == IF j = 1 THEN 1 ELSE Nth(Feeds(t), j - 1) + 1
        to == IF j <= Cardinality(Feeds(t)) THEN Nth(Feeds(t), j) - 1 ELSE Len(t)
    IN SubSeq(t, from, to)
\* line j without its line ending, "\n" or "\r\n"
LineText(t, j) ==
    LET raw == RawLine(t, j)
    IN IF j <= Cardinality(Feeds(t)) /\ raw # <<>> /\ raw[Len(raw)] = "\r"
       THEN SubSeq(raw, 1, Len(raw) - 1)
       ELSE raw
Blank(l) == \A i \in 1..Len(l) : IsWhitespace(l[i])
HasChar(l, c) == \E i \in 1..Len(l) : l[i] = c
EndsWith(s, c) == s # <<>> /\ s[Len(s)] = c
\* no line of the text ends with a carriage return (no "\r\n", no final "\r")
NoLineEndsCR(t) ==
    ~EndsWith(t, "\r") /\ \A i \in 2..Len(t) : t[i] = "\n" => t[i - 1] # "\r"
Trimmed(s) == s = <<>> \/ (~IsWhitespace(s[1]) /\ ~IsWhitespace(s[Len(s)]))
\* a line of the form `key = value`: one space on each side of the first
\* '=', no other white space around the key or the value
NormalKeyValue(l) ==
    \E i \in 1..Len(l) :
        /\ l[i] = "=" /\ \A j \in 1..(i - 1) : l[j] # "="
        /\ i >= 2 /\ l[i - 1] = " " /\ Trimmed(SubSeq(l, 1, i - 2))
        /\ i < Len(l) /\ l[i + 1] = " " /\ Trimmed(SubSeq(l, i + 2, Len(l)))
\* a text that is already in the form write_config emits
Canonical(t) ==
    /\ NoLineEndsCR(t)
    /\ Terminated(t)
    /\ \A j \in 1..NumLines(t) :
           LET l == RawLine(t, j)
           IN \/ l = <<>>
              \/ l[1] = "#"
              \/ ~HasChar(l, "=") /\ ~Blank(l)
              \/ NormalKeyValue(l)
OnlyCommentsAndBlanks(es) ==
    \A i \in 1..Len(es) : es[i].kind \in {"Comment", "BlankLine"}

ReadThenWrite == op.name = "write" /\ op.after = "read" /\ pre.disk.exists
WriteThenRead == op.name = "read" /\ op.after = "write"

----------------------------------------------------------------------------
(* Claims about the file codec, under SpecFile. *)

\* C1 as stated: for any file content, read_config followed by
\* write_config with no mutation in between leaves the file with exactly
\* the original bytes.
C1_ReadWriteKeepsBytes ==
    ReadThenWrite => disk = pre.disk

\* C1, amended: read_config followed by write_config with no mutation in
\* between leaves the file with exactly the original bytes when the content
\* is already in the form write_config emits: every line ended by a line
\* feed and none by a carriage return, every blank line empty, and every
\* key-value line written `key = value` with a single space on each side of the first
\* '=' and no other white space around key and value.
C1_ReadWriteKeepsCanonicalBytes ==
    ReadThenWrite /\ Canonical(pre.disk.content) => disk = pre.disk

\* a canonical file of at least two lines, one of them a key-value line,
\* has been read and written back.
C1_Witness ==
    /\ ReadThenWrite
    /\ Canonical(pre.disk.content)
    /\ Len(entries) >= 2
    /\ \E i \in 1..Len(entries) : entries[i].kind = "KeyValue"
    /\ disk = pre.disk

\* C2 as stated: for a document of Comment and BlankLine entries only,
\* write_config then read_config yields the identical entry sequence, and
\* the bytes on disk equal the input the document was built from.
C2_CommentsRoundTrip ==
    /\ WriteThenRead /\ OnlyCommentsAndBlanks(pre.entries) =>
           entries = pre.entries
    /\ ReadThenWrite /\ OnlyCommentsAndBlanks(entries) => disk = pre.disk

\* C2, amended: for a document that read_config produced, whose entries are
\* only Comment and BlankLine entries and none of whose comments ends with a
\* carriage return, write_config then read_config yields the identical
\* entry sequence; the bytes on disk equal the input the document was read
\* from when that input ends every line with a line feed and none with a
\* carriage return, and has no blank line that holds white space.
C2_PlainCommentsRoundTrip ==
    /\ WriteThenRead /\ OnlyCommentsAndBlanks(pre.entries)
           /\ (\A i \in 1..Len(pre.entries) :
                  pre.entries[i].kind = "Comment" =>
                      ~EndsWith(pre.entries[i].text, "\r"))
       => entries = pre.entries
    /\ ReadThenWrite /\ OnlyCommentsAndBlanks(entries)
           /\ NoLineEndsCR(pre.disk.content)
           /\ Terminated(pre.disk.content)
           /\ (\A j \in 1..NumLines(pre.disk.content) :
                  LET l == RawLine(pre.disk.content, j)
                  IN l = <<>> \/ ~Blank(l))
       => disk = pre.disk

\* a document holding a comment and a blank line has been written and read
\* back unchanged.
C2_Witness ==
    /\ WriteThenRead
    /\ OnlyCommentsAndBlanks(pre.entries)
    /\ \E i \in 1..Len(pre.entries) : pre.entries[i].kind = "Comment"
    /\ \E i \in 1..Len(pre.entries) : pre.entries[i].kind = "BlankLine"
    /\ entries = pre.entries

\* C8 as stated: write_config emits the entries in order, one line per
\* entry: a Comment reproduces the original line text, a BlankLine
\* reproduces the original blank line byte for byte, and a KeyValue is
\* emitted as `key = value` whatever the original spacing.
C8_WriteReproducesLines ==
    ReadThenWrite =>
        /\ Terminated(disk.content)
        /\ NumLines(disk.content) = Len(entries)
        /\ \A j \in 1..Len(entries) :
               RawLine(disk.content, j) =
                   IF entries[j].kind = "KeyValue"
                   THEN entries[j].key \o <<" ", "=", " ">> \o entries[j].value
                   ELSE LineText(pre.disk.content, j)

\* C8, amended: write_config emits the entries in order, one line per
\* entry, each ended by a line feed: a Comment reproduces the original line
\* text (the line without its line ending), a BlankLine is emitted as an
\* empty line whatever white space the original blank line held, and a
\* KeyValue is emitted as `key = value` whatever the original spacing.
C8_WriteEmitsLines ==
    ReadThenWrite =>
        /\ Terminated(disk.content)
        /\ NumLines(disk.content) = Len(entries)
        /\ \A j \in 1..Len(entries) :
               RawLine(disk.content, j) =
                   IF entries[j].kind = "KeyValue"
                   THEN entries[j].key \o <<" ", "=", " ">> \o entries[j].value
                   ELSE IF entries[j].kind = "BlankLine" THEN <<>>
                   ELSE LineText(pre.disk.content, j)

\* a file with a blank line that held white space and a key-value line in
\* another spacing has been read and written back.
C8_Witness ==
    /\ ReadThenWrite
    /\ \E j \in 1..Len(entries) :
           entries[j].kind = "BlankLine" /\ LineText(pre.disk.content, j) # <<>>
    /\ \E j \in 1..Len(entries) :
           /\ entries[j].kind = "KeyValue"
           /\ RawLine(disk.content, j) # LineText(pre.disk.content, j)

\* C10: parsing never fails and never drops a line: every line of the input
\* yields exactly one entry, in order (a blank line a BlankLine, a '#' line
\* a Comment, another line with '=' a KeyValue), and a line that is not
\* blank, does not start with '#' and contains no '=' becomes a Comment
\* holding the line text unchanged.
C10_ParseKeepsEveryLine ==
    op.name = "read" /\ disk.exists =>
        /\ Len(entries) = NumLines(disk.content)
        /\ \A j \in 1..NumLines(disk.content) :
               LET l == LineText(disk.content, j)
               IN IF Blank(l) THEN entries[j] = BlankLine
                  ELSE IF l[1] = "#" THEN entries[j] = Comment(l)
                  ELSE IF HasChar(l, "=") THEN entries[j].kind = "KeyValue"
                  ELSE entries[j] = Comment(l)

\* a file of two lines, one of them without '=' and '#' and with white
\* space around its text, has been read.
C10_Witness ==
    /\ op.name = "read" /\ disk.exists
    /\ Len(entries) >= 2
    /\ \E j \in 1..Len(entries) :
           LET l == LineText(disk.content, j)
           IN /\ ~Blank(l) /\ l[1] # "#" /\ ~HasChar(l, "=")
              /\ IsWhitespace(l[1])
              /\ entries[j] = Comment(l)

----------------------------------------------------------------------------
(* Claims about a built document written and read back, under SpecBuild. *)

AllKeys(es) ==
    BuildKeys \cup {es[i].key : i \in {j \in 1..Len(es) : es[j].kind = "KeyValue"}}

\* C9 as stated: for any document built with set (any key and value
\* strings) and pushed entries, write_config then read_config yields a
\* document with the same number of entries and, for every key, the same
\* get(k) as before the write.
C9_BuiltRoundTrip ==
    WriteThenRead =>
        /\ Len(entries) = Len(pre.entries)
        /\ \A k \in AllKeys(entries) \cup AllKeys(pre.entries) :
               get(entries, k) = get(pre.entries, k)

\* a document is storable when the text format can hold each entry on a
\* line of its own: keys and values without line feed and without white
\* space at either end, keys without '=' and not starting with '#',
\* comments without line feed that start with '#' or hold no '='.
Storable(es) ==
    \A i \in 1..Len(es) :
        IF es[i].kind = "KeyValue"
        THEN /\ Trimmed(es[i].key) /\ Trimmed(es[i].value)
             /\ ~HasChar(es[i].key, "\n") /\ ~HasChar(es[i].value, "\n")
             /\ ~HasChar(es[i].key, "=")
             /\ ~starts_with(es[i].key, "#")
        ELSE IF es[i].kind = "Comment"
        THEN /\ ~HasChar(es[i].text, "\n")
             /\ starts_with(es[i].text, "#") \/ ~HasChar(es[i].text, "=")
        ELSE TRUE

\* C9, amended: for a document built with set and pushed entries whose keys
\* and values hold no line feed and no white space at either end, whose
\* keys hold no '=' and do not start with '#', and whose comments hold no
\* line feed and start with '#' or hold no '=', write_config then
\* read_config yields a document with the same number of entries and, for
\* every key, the same get(k) as before the write.
C9_StorableRoundTrip ==
    WriteThenRead /\ Storable(pre.entries) =>
        /\ Len(entries) = Len(pre.entries)
        /\ \A k \in AllKeys(entries) \cup AllKeys(pre.entries) :
               get(entries, k) = get(pre.entries, k)

\* a storable document of two entries, built with set, has been written and
\* read back.
C9_Witness ==
    /\ WriteThenRead
    /\ Storable(pre.entries)
    /\ Len(pre.entries) = 2
    /\ \E i \in 1..2 : pre.entries[i] = KeyValue(<<"a">>, <<"a">>)
    /\ get(entries, <<"a">>) = Some(<<"a">>)

----------------------------------------------------------------------------
(* SpecRead: read_config called with a path.  Two paths name files; each   *)
(* of them may not exist or hold any text of at most MaxReadText           *)
(* characters.  In this specification disk is the file at each path, and   *)
(* the operation recorded is the call: the path asked for and the          *)
(* Result<UserConfig, AppError> it returned.                               *)

\* longest content of a file that read_config is called on with a path
MaxReadText == 2

Paths == {"config", "other"}

\* UserConfig { entries, file_path }
UserConfig(es, file_path) == [entries |-> es, file_path |-> file_path]

\* Result: Ok(value) and Err(error)
Ok(v) == [ok |-> TRUE, val |-> v]
Err(e) == [ok |-> FALSE, val |-> e]

\* A read that reports a path that does not exist as an error.
read_config_must_exist(path, files, read) ==
    IF ~files[path].exists \/ read = "Err" THEN Err("Io")
    ELSE Ok(UserConfig(read_config(files[path]), path))

\* read_config(path): the document starts as UserConfig::new(path); a path
\* that does not exist returns it as it is; else the file is read, which
\* can fail (fs::read_to_string(path)?), and its lines become the entries.
read_config_at(path, files, read) ==
    IF ~files[path].exists THEN Ok(UserConfig(new, path))
    ELSE IF read = "Err" THEN Err("Io")
    ELSE Ok(UserConfig(read_config(files[path]), path))

\* config = read_config(path)?: the document is replaced when the call
\* succeeds
ReadConfigAt(path, read) ==
    LET result == read_config_at(path, disk, read)
    IN /\ entries' = IF result.ok THEN result.val.entries ELSE entries
       /\ op' = Did("read_config", path, <<>>, result)
       /\ pre' = Before
       /\ UNCHANGED disk
       /\ UNCHANGED server

InitRead ==
    /\ entries = new
    /\ disk \in [Paths -> {NoFile} \cup {File(t) : t \in Texts(MaxReadText)}]
    /\ op = Fresh
    /\ pre = [entries |-> new, disk |-> disk]
    /\ ServerStart

NextRead == \E path \in Paths, read \in {"Ok", "Err"} : ReadConfigAt(path, read)

SpecRead == InitRead /\ [][NextRead]_vars

----------------------------------------------------------------------------
(* C11 *)

\* C11: read_config on a path that does not exist returns success, not an
\* error, with a document that has no entries and whose file_path is the
\* path asked for, whatever the other path holds and whatever document was
\* read before; the call creates no file.
C11_ReadMissingIsEmpty ==
    (op.name = "read_config" /\ ~pre.disk[op.key].exists)
        => /\ op.ret.ok
           /\ op.ret.val.entries = <<>>
           /\ op.ret.val.file_path = op.key
           /\ entries = <<>>
           /\ disk = pre.disk

\* the path "other" names no file and is read after the document of the
\* path "config", which has an entry
C11_Witness ==
    /\ op.name = "read_config"
    /\ op.key = "other"
    /\ ~pre.disk["other"].exists
    /\ pre.disk["config"].exists
    /\ pre.entries # <<>>
    /\ op.ret = Ok(UserConfig(<<>>, "other"))
    /\ entries = <<>>

----------------------------------------------------------------------------
(* Schema side: the type inferencer (src/config/type_inference.rs).        *)

\* ConfigValueType
Boolean == [type |-> "Boolean"]
Integer == [type |-> "Integer"]
Float == [type |-> "Float"]
Color == [type |-> "Color"]
Enum(values) == [type |-> "Enum", values |-> values]
Text == [type |-> "Text"]
Font == [type |-> "Font"]
Path == [type |-> "Path"]
Keybind == [type |-> "Keybind"]
Palette == [type |-> "Palette"]
CommaSeparated(inner) == [type |-> "CommaSeparated", inner |-> inner]

\* The backtick character.  A string literal cannot hold a lone backtick, so
\* the character is written as this token wherever a text contains it.
Backtick == "`'"

\* str::starts_with(&str)
starts_with_str(s, p) == Len(p) <= Len(s) /\ SubSeq(s, 1, Len(p)) = p

\* str::contains(&str)
contains(s, p) ==
    \E i \in 0..(Len(s) - Len(p)) : SubSeq(s, i + 1, i + Len(p)) = p

\* str::contains(char)
contains_char(s, c) == \E i \in 1..Len(s) : s[i] = c

AsciiDigits == <<"0", "1", "2", "3", "4", "5", "6", "7", "8", "9">>
is_ascii_digit(c) == \E d \in 1..10 : AsciiDigits[d] = c
digit_value(c) == (CHOOSE d \in 1..10 : AsciiDigits[d] = c) - 1
all_digits(s) == \A i \in 1..Len(s) : is_ascii_digit(s[i])

\* the digits of s without its leading zeros
RECURSIVE strip_zeros(_)
strip_zeros(s) ==
    IF s # <<>> /\ Head(s) = "0" THEN strip_zeros(Tail(s)) ELSE s

\* a <= b for two digit strings of the same length
RECURSIVE digits_le(_, _)
digits_le(a, b) ==
    IF a = <<>> THEN TRUE
    ELSE IF digit_value(Head(a)) # digit_value(Head(b))
         THEN digit_value(Head(a)) < digit_value(Head(b))
         ELSE digits_le(Tail(a), Tail(b))

\* i64::MAX and the magnitude of i64::MIN, in decimal
I64MaxDigits == <<"9", "2", "2", "3", "3", "7", "2", "0", "3", "6", "8", "5", "4", "7", "7", "5", "8", "0", "7">>
I64MinDigits == <<"9", "2", "2", "3", "3", "7", "2", "0", "3", "6", "8", "5", "4", "7", "7", "5", "8", "0", "8">>

\* whether the magnitude written by the digits s is at most the one of limit
fits(s, limit) ==
    LET m == strip_zeros(s)
    IN \/ Len(m) < Len(limit)
       \/ Len(m) = Len(limit) /\ digits_le(m, limit)

\* default.parse::<i64>().is_ok(): an optional sign, then one digit or more,
\* the value within the range of i64
parse_i64_is_ok(s) ==
    LET negative == s # <<>> /\ Head(s) = "-"
        signed == s # <<>> /\ Head(s) \in {"+", "-"}
        ds == IF signed THEN Tail(s) ELSE s
    IN /\ ds # <<>>
       /\ all_digits(ds)
       /\ fits(ds, IF negative THEN I64MinDigits ELSE I64MaxDigits)

\* char::to_ascii_lowercase on the letters the float grammar names
to_ascii_lowercase(c) ==
    CASE c = "I" -> "i" [] c = "N" -> "n" [] c = "F" -> "f"
      [] c = "T" -> "t" [] c = "Y" -> "y" [] c = "A" -> "a"
      [] c = "E" -> "e" [] OTHER -> c

\* default.parse::<f64>().is_ok(): an optional sign, then inf, infinity or
\* nan in any case, or digits with at most one point and one digit at
\* least, followed by an optional exponent (e, optional sign, digits)
parse_f64_is_ok(s) ==
    LET signed == s # <<>> /\ Head(s) \in {"+", "-"}
        body == IF signed THEN Tail(s) ELSE s
        lower == [i \in 1..Len(body) |-> to_ascii_lowercase(body[i])]
        e == find_char(lower, "e")
        mantissa == IF e = 0 THEN body ELSE SubSeq(body, 1, e - 1)
        exponent == IF e = 0 THEN <<>> ELSE SubSeq(body, e + 1, Len(body))
        point == find_char(mantissa, ".")
        whole == IF point = 0 THEN mantissa
                 ELSE SubSeq(mantissa, 1, point - 1)
        fraction == IF point = 0 THEN <<>>
                    ELSE SubSeq(mantissa, point + 1, Len(mantissa))
        exp_signed == exponent # <<>> /\ Head(exponent) \in {"+", "-"}
        exp_digits == IF exp_signed THEN Tail(exponent) ELSE exponent
    IN \/ lower \in {<<"i", "n", "f">>, <<"i", "n", "f", "i", "n", "i", "t", "y">>, <<"n", "a", "n">>}
       \/ /\ all_digits(whole)
          /\ all_digits(fraction)
          /\ Len(whole) + Len(fraction) > 0
          /\ e # 0 => (exp_digits # <<>> /\ all_digits(exp_digits))

\* the first index at or after i of s that holds no whitespace, or
\* Len(s) + 1 when there is none
skip_whitespace(s, i) ==
    LET stop == {j \in i..Len(s) : ~IsWhitespace(s[j])}
    IN IF stop = {} THEN Len(s) + 1
       ELSE CHOOSE j \in stop : \A k \in stop : j <= k

\* ENUM_BULLET_RE.captures(line)[1]: the line starts with whitespace, an
\* asterisk, whitespace and a backtick; the capture is the text, one
\* character at least, between that backtick and the next one
ENUM_BULLET_RE(line) ==
    LET star == skip_whitespace(line, 1)
        tick == skip_whitespace(line, star + 1)
        closing == {j \in (tick + 1)..Len(line) : line[j] = Backtick}
        close == CHOOSE j \in closing : \A k \in closing : j <= k
    IN IF /\ star > 1
          /\ star <= Len(line)
          /\ line[star] = "*"
          /\ tick > star + 1
          /\ tick <= Len(line)
          /\ line[tick] = Backtick
          /\ closing # {}
          /\ close > tick + 1
       THEN Some(SubSeq(line, tick + 1, close - 1))
       ELSE None

\* An extraction that ends the list at the first line that is neither a
\* bullet, nor blank, nor indented, nor a '#' line.
RECURSIVE extract_first_list(_, _, _)
extract_first_list(ls, values, in_list) ==
    IF ls = <<>> THEN values
    ELSE LET line == Head(ls)
             caps == ENUM_BULLET_RE(line)
         IN IF caps.some
            THEN IF /\ ~contains_char(caps.val, " ")
                    /\ ~contains_char(caps.val, "=")
                    /\ ~starts_with_str(caps.val, <<"e", ".", "g">>)
                 THEN extract_first_list(Tail(ls), Append(values, caps.val),
                                         TRUE)
                 ELSE extract_first_list(Tail(ls), values, in_list)
            ELSE IF /\ in_list
                    /\ trim(line) # <<>>
                    /\ ~starts_with_str(line, <<" ", " ">>)
                    /\ ~starts_with(line, "#")
                 THEN values
                 ELSE extract_first_list(Tail(ls), values, in_list)

enum_values_first_list(docs) == extract_first_list(lines(docs), <<>>, FALSE)

\* the loop of extract_enum_values over the lines left, with the values
\* collected so far and the in_list flag
RECURSIVE extract_loop(_, _, _)
extract_loop(ls, values, in_list) ==
    IF ls = <<>> THEN values
    ELSE LET line == Head(ls)
             caps == ENUM_BULLET_RE(line)
         IN IF caps.some
            THEN IF /\ ~contains_char(caps.val, " ")
                    /\ ~contains_char(caps.val, "=")
                    /\ ~starts_with_str(caps.val, <<"e", ".", "g">>)
                 THEN extract_loop(Tail(ls), Append(values, caps.val), TRUE)
                 ELSE extract_loop(Tail(ls), values, in_list)
            ELSE extract_loop(Tail(ls), values, in_list)

extract_enum_values(docs) == extract_loop(lines(docs), <<>>, FALSE)

manual_override(key) ==
    IF key = <<"f", "o", "n", "t", "-", "s", "i", "z", "e">> THEN Some(Float)
    ELSE IF key \in {<<"a", "d", "j", "u", "s", "t", "-", "c", "e", "l", "l", "-", "w", "i", "d", "t", "h">>, <<"a", "d", "j", "u", "s", "t", "-", "c", "e", "l", "l", "-", "h", "e", "i", "g", "h", "t">>}
    THEN Some(Text)
    ELSE IF key \in {<<"a", "d", "j", "u", "s", "t", "-", "f", "o", "n", "t", "-", "b", "a", "s", "e", "l", "i", "n", "e">>,
                     <<"a", "d", "j", "u", "s", "t", "-", "u", "n", "d", "e", "r", "l", "i", "n", "e", "-", "p", "o", "s", "i", "t", "i", "o", "n">>,
                     <<"a", "d", "j", "u", "s", "t", "-", "u", "n", "d", "e", "r", "l", "i", "n", "e", "-", "t", "h", "i", "c", "k", "n", "e", "s", "s">>,
                     <<"a", "d", "j", "u", "s", "t", "-", "s", "t", "r", "i", "k", "e", "t", "h", "r", "o", "u", "g", "h", "-", "p", "o", "s", "i", "t", "i", "o", "n">>,
                     <<"a", "d", "j", "u", "s", "t", "-", "s", "t", "r", "i", "k", "e", "t", "h", "r", "o", "u", "g", "h", "-", "t", "h", "i", "c", "k", "n", "e", "s", "s">>,
                     <<"a", "d", "j", "u", "s", "t", "-", "o", "v", "e", "r", "l", "i", "n", "e", "-", "p", "o", "s", "i", "t", "i", "o", "n">>,
                     <<"a", "d", "j", "u", "s", "t", "-", "o", "v", "e", "r", "l", "i", "n", "e", "-", "t", "h", "i", "c", "k", "n", "e", "s", "s">>,
                     <<"a", "d", "j", "u", "s", "t", "-", "c", "u", "r", "s", "o", "r", "-", "t", "h", "i", "c", "k", "n", "e", "s", "s">>,
                     <<"a", "d", "j", "u", "s", "t", "-", "c", "u", "r", "s", "o", "r", "-", "h", "e", "i", "g", "h", "t">>,
                     <<"a", "d", "j", "u", "s", "t", "-", "b", "o", "x", "-", "t", "h", "i", "c", "k", "n", "e", "s", "s">>}
    THEN Some(Text)
    ELSE IF key \in {<<"w", "i", "n", "d", "o", "w", "-", "p", "a", "d", "d", "i", "n", "g", "-", "x">>, <<"w", "i", "n", "d", "o", "w", "-", "p", "a", "d", "d", "i", "n", "g", "-", "y">>}
    THEN Some(Text)
    ELSE IF key = <<"w", "i", "n", "d", "o", "w", "-", "p", "a", "d", "d", "i", "n", "g", "-", "b", "a", "l", "a", "n", "c", "e">> THEN Some(Boolean)
    ELSE IF key = <<"s", "c", "r", "o", "l", "l", "b", "a", "c", "k", "-", "l", "i", "m", "i", "t">> THEN Some(Integer)
    ELSE IF key = <<"i", "m", "a", "g", "e", "-", "s", "t", "o", "r", "a", "g", "e", "-", "l", "i", "m", "i", "t">> THEN Some(Integer)
    ELSE IF key = <<"f", "o", "n", "t", "-", "t", "h", "i", "c", "k", "e", "n", "-", "s", "t", "r", "e", "n", "g", "t", "h">> THEN Some(Integer)
    ELSE IF key = <<"f", "a", "i", "n", "t", "-", "o", "p", "a", "c", "i", "t", "y">> THEN Some(Float)
    ELSE None

\* An inferencer that tries the numeric rules before the enum rule.
infer_type_numbers_first(key, default, docs) ==
    IF manual_override(key).some THEN manual_override(key).val
    ELSE IF key = <<"k", "e", "y", "b", "i", "n", "d">> THEN Keybind
    ELSE IF key = <<"p", "a", "l", "e", "t", "t", "e">> THEN Palette
    ELSE IF \/ key = <<"f", "o", "n", "t", "-", "f", "a", "m", "i", "l", "y">>
            \/ key = <<"f", "o", "n", "t", "-", "f", "a", "m", "i", "l", "y", "-", "b", "o", "l", "d">>
            \/ key = <<"f", "o", "n", "t", "-", "f", "a", "m", "i", "l", "y", "-", "i", "t", "a", "l", "i", "c">>
            \/ key = <<"f", "o", "n", "t", "-", "f", "a", "m", "i", "l", "y", "-", "b", "o", "l", "d", "-", "i", "t", "a", "l", "i", "c">>
    THEN Font
    ELSE IF default = <<"t", "r", "u", "e">> \/ default = <<"f", "a", "l", "s", "e">>
    THEN Boolean
    ELSE IF /\ \/ contains(key, <<"c", "o", "l", "o", "r">>)
               \/ key = <<"b", "a", "c", "k", "g", "r", "o", "u", "n", "d">>
               \/ key = <<"f", "o", "r", "e", "g", "r", "o", "u", "n", "d">>
               \/ starts_with_str(key, <<"s", "e", "l", "e", "c", "t", "i", "o", "n", "-">>)
               \/ key = <<"c", "u", "r", "s", "o", "r", "-", "t", "e", "x", "t">>
               \/ key = <<"b", "o", "l", "d", "-", "c", "o", "l", "o", "r">>
               \/ starts_with_str(key, <<"s", "p", "l", "i", "t", "-">>)
            /\ (default = <<>> \/ starts_with(default, "#"))
    THEN Color
    ELSE IF \/ key = <<"c", "o", "n", "f", "i", "g", "-", "f", "i", "l", "e">>
            \/ key = <<"w", "o", "r", "k", "i", "n", "g", "-", "d", "i", "r", "e", "c", "t", "o", "r", "y">>
            \/ starts_with_str(key, <<"c", "u", "s", "t", "o", "m", "-", "s", "h", "a", "d", "e", "r">>)
    THEN Path
    ELSE IF contains_char(default, ".") /\ parse_f64_is_ok(default)
    THEN Float
    ELSE IF default # <<>> /\ parse_i64_is_ok(default)
    THEN Integer
    ELSE IF Len(extract_enum_values(docs)) >= 2
    THEN Enum(extract_enum_values(docs))
    ELSE IF key = <<"f", "o", "n", "t", "-", "s", "y", "n", "t", "h", "e", "t", "i", "c", "-", "s", "t", "y", "l", "e">> \/ key = <<"f", "o", "n", "t", "-", "f", "e", "a", "t", "u", "r", "e">>
    THEN CommaSeparated(Text)
    ELSE Text

\* An inferencer that takes a missing default for false.
infer_type_empty_boolean(key, default, docs) ==
    IF manual_override(key).some THEN manual_override(key).val
    ELSE IF key = <<"k", "e", "y", "b", "i", "n", "d">> THEN Keybind
    ELSE IF key = <<"p", "a", "l", "e", "t", "t", "e">> THEN Palette
    ELSE IF \/ key = <<"f", "o", "n", "t", "-", "f", "a", "m", "i", "l", "y">>
            \/ key = <<"f", "o", "n", "t", "-", "f", "a", "m", "i", "l", "y", "-", "b", "o", "l", "d">>
            \/ key = <<"f", "o", "n", "t", "-", "f", "a", "m", "i", "l", "y", "-", "i", "t", "a", "l", "i", "c">>
            \/ key = <<"f", "o", "n", "t", "-", "f", "a", "m", "i", "l", "y", "-", "b", "o", "l", "d", "-", "i", "t", "a", "l", "i", "c">>
    THEN Font
    ELSE IF default = <<"t", "r", "u", "e">> \/ default = <<"f", "a", "l", "s", "e">> \/ default = <<>>
    THEN Boolean
    ELSE IF /\ \/ contains(key, <<"c", "o", "l", "o", "r">>)
               \/ key = <<"b", "a", "c", "k", "g", "r", "o", "u", "n", "d">>
               \/ key = <<"f", "o", "r", "e", "g", "r", "o", "u", "n", "d">>
               \/ starts_with_str(key, <<"s", "e", "l", "e", "c", "t", "i", "o", "n", "-">>)
               \/ key = <<"c", "u", "r", "s", "o", "r", "-", "t", "e", "x", "t">>
               \/ key = <<"b", "o", "l", "d", "-", "c", "o", "l", "o", "r">>
               \/ starts_with_str(key, <<"s", "p", "l", "i", "t", "-">>)
            /\ (default = <<>> \/ starts_with(default, "#"))
    THEN Color
    ELSE IF \/ key = <<"c", "o", "n", "f", "i", "g", "-", "f", "i", "l", "e">>
            \/ key = <<"w", "o", "r", "k", "i", "n", "g", "-", "d", "i", "r", "e", "c", "t", "o", "r", "y">>
            \/ starts_with_str(key, <<"c", "u", "s", "t", "o", "m", "-", "s", "h", "a", "d", "e", "r">>)
    THEN Path
    ELSE IF Len(extract_enum_values(docs)) >= 2
    THEN Enum(extract_enum_values(docs))
    ELSE IF contains_char(default, ".") /\ parse_f64_is_ok(default)
    THEN Float
    ELSE IF default # <<>> /\ parse_i64_is_ok(default)
    THEN Integer
    ELSE IF key = <<"f", "o", "n", "t", "-", "s", "y", "n", "t", "h", "e", "t", "i", "c", "-", "s", "t", "y", "l", "e">> \/ key = <<"f", "o", "n", "t", "-", "f", "e", "a", "t", "u", "r", "e">>
    THEN CommaSeparated(Text)
    ELSE Text

infer_type(key, default, docs) ==
    IF manual_override(key).some THEN manual_override(key).val
    ELSE IF key = <<"k", "e", "y", "b", "i", "n", "d">> THEN Keybind
    ELSE IF key = <<"p", "a", "l", "e", "t", "t", "e">> THEN Palette
    ELSE IF \/ key = <<"f", "o", "n", "t", "-", "f", "a", "m", "i", "l", "y">>
            \/ key = <<"f", "o", "n", "t", "-", "f", "a", "m", "i", "l", "y", "-", "b", "o", "l", "d">>
            \/ key = <<"f", "o", "n", "t", "-", "f", "a", "m", "i", "l", "y", "-", "i", "t", "a", "l", "i", "c">>
            \/ key = <<"f", "o", "n", "t", "-", "f", "a", "m", "i", "l", "y", "-", "b", "o", "l", "d", "-", "i", "t", "a", "l", "i", "c">>
    THEN Font
    ELSE IF default = <<"t", "r", "u", "e">> \/ default = <<"f", "a", "l", "s", "e">>
    THEN Boolean
    ELSE IF /\ \/ contains(key, <<"c", "o", "l", "o", "r">>)
               \/ key = <<"b", "a", "c", "k", "g", "r", "o", "u", "n", "d">>
               \/ key = <<"f", "o", "r", "e", "g", "r", "o", "u", "n", "d">>
               \/ starts_with_str(key, <<"s", "e", "l", "e", "c", "t", "i", "o", "n", "-">>)
               \/ key = <<"c", "u", "r", "s", "o", "r", "-", "t", "e", "x", "t">>
               \/ key = <<"b", "o", "l", "d", "-", "c", "o", "l", "o", "r">>
               \/ starts_with_str(key, <<"s", "p", "l", "i", "t", "-">>)
            /\ (default = <<>> \/ starts_with(default, "#"))
    THEN Color
    ELSE IF \/ key = <<"c", "o", "n", "f", "i", "g", "-", "f", "i", "l", "e">>
            \/ key = <<"w", "o", "r", "k", "i", "n", "g", "-", "d", "i", "r", "e", "c", "t", "o", "r", "y">>
            \/ starts_with_str(key, <<"c", "u", "s", "t", "o", "m", "-", "s", "h", "a", "d", "e", "r">>)
    THEN Path
    ELSE IF Len(extract_enum_values(docs)) >= 2
    THEN Enum(extract_enum_values(docs))
    ELSE IF contains_char(default, ".") /\ parse_f64_is_ok(default)
    THEN Float
    ELSE IF default # <<>> /\ parse_i64_is_ok(default)
    THEN Integer
    ELSE IF key = <<"f", "o", "n", "t", "-", "s", "y", "n", "t", "h", "e", "t", "i", "c", "-", "s", "t", "y", "l", "e">> \/ key = <<"f", "o", "n", "t", "-", "f", "e", "a", "t", "u", "r", "e">>
    THEN CommaSeparated(Text)
    ELSE Text

is_repeatable(key) ==
    key \in {<<"k", "e", "y", "b", "i", "n", "d">>, <<"p", "a", "l", "e", "t", "t", "e">>, <<"f", "o", "n", "t", "-", "f", "a", "m", "i", "l", "y">>, <<"f", "o", "n", "t", "-", "f", "a", "m", "i", "l", "y", "-", "b", "o", "l", "d">>,
             <<"f", "o", "n", "t", "-", "f", "a", "m", "i", "l", "y", "-", "i", "t", "a", "l", "i", "c">>, <<"f", "o", "n", "t", "-", "f", "a", "m", "i", "l", "y", "-", "b", "o", "l", "d", "-", "i", "t", "a", "l", "i", "c">>,
             <<"f", "o", "n", "t", "-", "f", "e", "a", "t", "u", "r", "e">>, <<"f", "o", "n", "t", "-", "v", "a", "r", "i", "a", "t", "i", "o", "n">>, <<"f", "o", "n", "t", "-", "v", "a", "r", "i", "a", "t", "i", "o", "n", "-", "b", "o", "l", "d">>,
             <<"f", "o", "n", "t", "-", "v", "a", "r", "i", "a", "t", "i", "o", "n", "-", "i", "t", "a", "l", "i", "c">>, <<"f", "o", "n", "t", "-", "v", "a", "r", "i", "a", "t", "i", "o", "n", "-", "b", "o", "l", "d", "-", "i", "t", "a", "l", "i", "c">>,
             <<"f", "o", "n", "t", "-", "c", "o", "d", "e", "p", "o", "i", "n", "t", "-", "m", "a", "p">>, <<"c", "o", "n", "f", "i", "g", "-", "f", "i", "l", "e">>, <<"c", "u", "s", "t", "o", "m", "-", "s", "h", "a", "d", "e", "r">>}

\* [String]::join(sep)
RECURSIVE join(_, _)
join(ls, sep) ==
    IF ls = <<>> THEN <<>>
    ELSE IF Len(ls) = 1 THEN ls[1]
    ELSE ls[1] \o sep \o join(Tail(ls), sep)

----------------------------------------------------------------------------
(* SpecInfer: infer_type on the keys its rules name and on other keys,     *)
(* with defaults of every shape the rules tell apart and documentation of  *)
(* at most MaxDocLines lines.                                              *)

\* most lines of a documentation text given to infer_type
MaxDocLines == 2

\* the sequences of at most n elements of S
RECURSIVE SeqsUpTo(_, _)
SeqsUpTo(S, n) ==
    IF n = 0 THEN {<<>>}
    ELSE LET shorter == SeqsUpTo(S, n - 1)
         IN shorter \cup {Append(t, x) : t \in {u \in shorter : Len(u) = n - 1},
                                         x \in S}

InferKeys ==
    {<<"f", "o", "n", "t", "-", "s", "i", "z", "e">>, <<"a", "d", "j", "u", "s", "t", "-", "c", "e", "l", "l", "-", "w", "i", "d", "t", "h">>, <<"w", "i", "n", "d", "o", "w", "-", "p", "a", "d", "d", "i", "n", "g", "-", "b", "a", "l", "a", "n", "c", "e">>,
     <<"s", "c", "r", "o", "l", "l", "b", "a", "c", "k", "-", "l", "i", "m", "i", "t">>, <<"f", "a", "i", "n", "t", "-", "o", "p", "a", "c", "i", "t", "y">>, <<"k", "e", "y", "b", "i", "n", "d">>, <<"p", "a", "l", "e", "t", "t", "e">>,
     <<"f", "o", "n", "t", "-", "f", "a", "m", "i", "l", "y">>, <<"f", "o", "n", "t", "-", "f", "a", "m", "i", "l", "y", "-", "b", "o", "l", "d", "-", "i", "t", "a", "l", "i", "c">>, <<"c", "u", "r", "s", "o", "r", "-", "c", "o", "l", "o", "r">>,
     <<"b", "a", "c", "k", "g", "r", "o", "u", "n", "d">>, <<"f", "o", "r", "e", "g", "r", "o", "u", "n", "d">>, <<"s", "e", "l", "e", "c", "t", "i", "o", "n", "-", "f", "o", "r", "e", "g", "r", "o", "u", "n", "d">>,
     <<"c", "u", "r", "s", "o", "r", "-", "t", "e", "x", "t">>, <<"s", "p", "l", "i", "t", "-", "f", "i", "l", "l">>, <<"c", "o", "n", "f", "i", "g", "-", "f", "i", "l", "e">>,
     <<"w", "o", "r", "k", "i", "n", "g", "-", "d", "i", "r", "e", "c", "t", "o", "r", "y">>, <<"c", "u", "s", "t", "o", "m", "-", "s", "h", "a", "d", "e", "r", "-", "a", "n", "i", "m", "a", "t", "i", "o", "n">>, <<"f", "o", "n", "t", "-", "f", "e", "a", "t", "u", "r", "e">>,
     <<"f", "o", "n", "t", "-", "s", "y", "n", "t", "h", "e", "t", "i", "c", "-", "s", "t", "y", "l", "e">>, <<"t", "i", "t", "l", "e">>, <<"c", "u", "r", "s", "o", "r", "-", "s", "t", "y", "l", "e">>, <<>>}

InferDefaults ==
    {<<>>, <<"t", "r", "u", "e">>, <<"f", "a", "l", "s", "e">>, <<"T", "r", "u", "e">>, <<" ", "t", "r", "u", "e">>, <<"#", "f", "f", "f">>, <<"#">>,
     <<"1", ".", "5">>, <<"1", ".">>, <<".">>, <<".", "5">>, <<"-", "1", ".", "5", "e", "3">>, <<"1", ".", "e">>, <<"1", ".", "2", ".", "3">>,
     <<"1", "3">>, <<"-", "3">>, <<"+">>, <<"0", "0", "7">>, <<"0", "x", "1", "0">>, <<"1", ",", "5">>, <<"b", "l", "o", "c", "k">>,
     <<"9", "2", "2", "3", "3", "7", "2", "0", "3", "6", "8", "5", "4", "7", "7", "5", "8", "0", "7">>, <<"9", "2", "2", "3", "3", "7", "2", "0", "3", "6", "8", "5", "4", "7", "7", "5", "8", "0", "8">>,
     <<"-", "9", "2", "2", "3", "3", "7", "2", "0", "3", "6", "8", "5", "4", "7", "7", "5", "8", "0", "8">>, <<"-", "9", "2", "2", "3", "3", "7", "2", "0", "3", "6", "8", "5", "4", "7", "7", "5", "8", "0", "9">>}

InferDocLines ==
    {<<" ", " ", "*", " ", Backtick, "a", Backtick, " ", "-", " ", "x">>, <<" ", " ", "*", " ", Backtick, "b", Backtick>>, <<" ", " ", "*", " ", Backtick, "a", " ", "b", Backtick>>, <<"t", "e", "x", "t">>, <<>>}

InferDocs == {join(ls, <<"\n">>) : ls \in SeqsUpTo(InferDocLines, MaxDocLines)}

\* the arguments of a call that is still to be made
Input(key, value, docs) ==
    [name |-> "input", key |-> key, value |-> value, docs |-> docs,
     ret |-> None, after |-> "", again |-> FALSE]

\* the call made on the arguments held in op, with its result
Applied(name, ret) ==
    [op EXCEPT !.name = name, !.ret = ret, !.after = op.name]

\* infer_type(key, default, docs)
InferType ==
    /\ op.name = "input"
    /\ op' = Applied("infer_type", infer_type(op.key, op.value, op.docs))
    /\ pre' = Before
    /\ UNCHANGED <<entries, disk>>
    /\ UNCHANGED server

InitInfer ==
    /\ entries = new
    /\ disk = NoFile
    /\ op \in {Input(k, d, t) : k \in InferKeys, d \in InferDefaults,
                                t \in InferDocs}
    /\ pre = [entries |-> new, disk |-> NoFile]
    /\ ServerStart

NextInfer == InferType

SpecInfer == InitInfer /\ [][NextInfer]_vars

----------------------------------------------------------------------------
(* SpecEnum: extract_enum_values on documentation of at most MaxEnumLines  *)
(* lines: bullets of every spacing, tokens the filter drops, lines that    *)
(* only look like bullets, and plain, blank, indented and '#' lines.       *)

\* most lines of a documentation text given to extract_enum_values
MaxEnumLines == 3

EnumLines ==
    {<<" ", " ", "*", " ", Backtick, "a", Backtick, " ", "-", " ", "x">>, <<" ", "*", " ", Backtick, "b", Backtick>>, <<"\t", "*", "\t", Backtick, "c", Backtick>>, <<" ", " ", "*", " ", Backtick, "a", " ", "b", Backtick>>,
     <<" ", " ", "*", " ", Backtick, "e", ".", "g", ".", Backtick>>, <<" ", " ", "*", " ", Backtick, "k", "=", "v", Backtick>>, <<"t", "e", "x", "t">>, <<>>, <<" ", " ", "t", "e", "x", "t">>, <<"#", " ", "x">>,
     <<"*", " ", Backtick, "d", Backtick>>, <<" ", " ", "*", Backtick, "d", Backtick>>, <<" ", " ", "*", " ", Backtick, "d">>, <<" ", " ", "*", " ", Backtick, Backtick>>}

EnumDocs == {join(ls, <<"\n">>) : ls \in SeqsUpTo(EnumLines, MaxEnumLines)}

\* extract_enum_values(docs)
ExtractEnumValues ==
    /\ op.name = "input"
    /\ op' = Applied("extract_enum_values", extract_enum_values(op.docs))
    /\ pre' = Before
    /\ UNCHANGED <<entries, disk>>
    /\ UNCHANGED server

InitEnum ==
    /\ entries = new
    /\ disk = NoFile
    /\ op \in {Input(<<>>, <<>>, t) : t \in EnumDocs}
    /\ pre = [entries |-> new, disk |-> NoFile]
    /\ ServerStart

NextEnum == ExtractEnumValues

SpecEnum == InitEnum /\ [][NextEnum]_vars

----------------------------------------------------------------------------
(* C12, C13, C14: the order of the rules of infer_type *)

\* the manual-override table, as pairs of key and type
ManualTable ==
    {<<<<"f", "o", "n", "t", "-", "s", "i", "z", "e">>, "Float">>, <<<<"f", "a", "i", "n", "t", "-", "o", "p", "a", "c", "i", "t", "y">>, "Float">>,
     <<<<"w", "i", "n", "d", "o", "w", "-", "p", "a", "d", "d", "i", "n", "g", "-", "b", "a", "l", "a", "n", "c", "e">>, "Boolean">>,
     <<<<"s", "c", "r", "o", "l", "l", "b", "a", "c", "k", "-", "l", "i", "m", "i", "t">>, "Integer">>,
     <<<<"i", "m", "a", "g", "e", "-", "s", "t", "o", "r", "a", "g", "e", "-", "l", "i", "m", "i", "t">>, "Integer">>,
     <<<<"f", "o", "n", "t", "-", "t", "h", "i", "c", "k", "e", "n", "-", "s", "t", "r", "e", "n", "g", "t", "h">>, "Integer">>,
     <<<<"w", "i", "n", "d", "o", "w", "-", "p", "a", "d", "d", "i", "n", "g", "-", "x">>, "Text">>, <<<<"w", "i", "n", "d", "o", "w", "-", "p", "a", "d", "d", "i", "n", "g", "-", "y">>, "Text">>}
    \cup {<<<<"a", "d", "j", "u", "s", "t", "-">> \o k, "Text">> :
            k \in {<<"c", "e", "l", "l", "-", "w", "i", "d", "t", "h">>, <<"c", "e", "l", "l", "-", "h", "e", "i", "g", "h", "t">>, <<"f", "o", "n", "t", "-", "b", "a", "s", "e", "l", "i", "n", "e">>,
                   <<"u", "n", "d", "e", "r", "l", "i", "n", "e", "-", "p", "o", "s", "i", "t", "i", "o", "n">>, <<"u", "n", "d", "e", "r", "l", "i", "n", "e", "-", "t", "h", "i", "c", "k", "n", "e", "s", "s">>,
                   <<"s", "t", "r", "i", "k", "e", "t", "h", "r", "o", "u", "g", "h", "-", "p", "o", "s", "i", "t", "i", "o", "n">>, <<"s", "t", "r", "i", "k", "e", "t", "h", "r", "o", "u", "g", "h", "-", "t", "h", "i", "c", "k", "n", "e", "s", "s">>,
                   <<"o", "v", "e", "r", "l", "i", "n", "e", "-", "p", "o", "s", "i", "t", "i", "o", "n">>, <<"o", "v", "e", "r", "l", "i", "n", "e", "-", "t", "h", "i", "c", "k", "n", "e", "s", "s">>,
                   <<"c", "u", "r", "s", "o", "r", "-", "t", "h", "i", "c", "k", "n", "e", "s", "s">>, <<"c", "u", "r", "s", "o", "r", "-", "h", "e", "i", "g", "h", "t">>,
                   <<"b", "o", "x", "-", "t", "h", "i", "c", "k", "n", "e", "s", "s">>}}

ManualKeys == {p[1] : p \in ManualTable}
ManualType(k) == (CHOOSE p \in ManualTable : p[1] = k)[2]

FontFamilyKeys ==
    {<<"f", "o", "n", "t", "-", "f", "a", "m", "i", "l", "y">> \o s :
        s \in {<<>>, <<"-", "b", "o", "l", "d">>, <<"-", "i", "t", "a", "l", "i", "c">>, <<"-", "b", "o", "l", "d", "-", "i", "t", "a", "l", "i", "c">>}}

ColorLike(k) ==
    \/ contains(k, <<"c", "o", "l", "o", "r">>)
    \/ k \in {<<"b", "a", "c", "k", "g", "r", "o", "u", "n", "d">>, <<"f", "o", "r", "e", "g", "r", "o", "u", "n", "d">>, <<"c", "u", "r", "s", "o", "r", "-", "t", "e", "x", "t">>}
    \/ starts_with_str(k, <<"s", "e", "l", "e", "c", "t", "i", "o", "n", "-">>)
    \/ starts_with_str(k, <<"s", "p", "l", "i", "t", "-">>)

\* the rules in the order of the claim: whether each applies to the
\* arguments, and the type it gives
Rules(k, d, t) ==
    <<[applies |-> k \in ManualKeys,
       type |-> IF k \in ManualKeys THEN ManualType(k) ELSE ""],
      [applies |-> k = <<"k", "e", "y", "b", "i", "n", "d">>, type |-> "Keybind"],
      [applies |-> k = <<"p", "a", "l", "e", "t", "t", "e">>, type |-> "Palette"],
      [applies |-> k \in FontFamilyKeys, type |-> "Font"],
      [applies |-> d \in {<<"t", "r", "u", "e">>, <<"f", "a", "l", "s", "e">>}, type |-> "Boolean"],
      [applies |-> ColorLike(k) /\ (d = <<>> \/ d[1] = "#"),
       type |-> "Color"],
      [applies |-> \/ k \in {<<"c", "o", "n", "f", "i", "g", "-", "f", "i", "l", "e">>, <<"w", "o", "r", "k", "i", "n", "g", "-", "d", "i", "r", "e", "c", "t", "o", "r", "y">>}
                   \/ starts_with_str(k, <<"c", "u", "s", "t", "o", "m", "-", "s", "h", "a", "d", "e", "r">>),
       type |-> "Path"],
      [applies |-> Len(extract_enum_values(t)) >= 2, type |-> "Enum"],
      [applies |-> contains_char(d, ".") /\ parse_f64_is_ok(d),
       type |-> "Float"],
      [applies |-> parse_i64_is_ok(d), type |-> "Integer"],
      [applies |-> k \in {<<"f", "o", "n", "t", "-", "s", "y", "n", "t", "h", "e", "t", "i", "c", "-", "s", "t", "y", "l", "e">>, <<"f", "o", "n", "t", "-", "f", "e", "a", "t", "u", "r", "e">>},
       type |-> "CommaSeparated"],
      [applies |-> TRUE, type |-> "Text"]>>

FirstRule(k, d, t) ==
    LET rs == Rules(k, d, t)
    IN CHOOSE i \in 1..Len(rs) :
          /\ rs[i].applies
          /\ \A j \in 1..(i - 1) : ~rs[j].applies

Inferred == op.name = "infer_type"

\* C12: infer_type returns the type of the first rule that applies, in the
\* order manual-override table, keybind and palette, font-family keys,
\* Boolean, Color, Path, Enum, Float, Integer, comma-separated keys, Text.
\* A key of the manual-override table gets the type of the table whatever
\* the default and the documentation, a color-named key with default "true"
\* is Boolean, and a numeric default with an enum bullet list is Enum.
C12_FirstRuleWins ==
    Inferred =>
        LET rs == Rules(op.key, op.value, op.docs)
            first == FirstRule(op.key, op.value, op.docs)
        IN /\ op.ret.type = rs[first].type
           /\ op.ret.type = "Enum" => op.ret.values = extract_enum_values(op.docs)
           /\ op.ret.type = "CommaSeparated" => op.ret.inner = Text
           /\ op.key \in ManualKeys => op.ret.type = ManualType(op.key)
           /\ (op.key = <<"c", "u", "r", "s", "o", "r", "-", "c", "o", "l", "o", "r">> /\ op.value = <<"t", "r", "u", "e">>)
                 => op.ret = Boolean
           /\ (/\ op.key \in {<<"t", "i", "t", "l", "e">>, <<"c", "u", "r", "s", "o", "r", "-", "s", "t", "y", "l", "e">>}
               /\ op.value \in {<<"1", "3">>, <<"1", ".", "5">>}
               /\ Len(extract_enum_values(op.docs)) >= 2)
                 => op.ret.type = "Enum"

C12_Witness ==
    /\ Inferred
    /\ op.key = <<"t", "i", "t", "l", "e">>
    /\ op.value = <<"1", "3">>
    /\ op.docs = <<" ", " ", "*", " ", Backtick, "a", Backtick, " ", "-", " ", "x", "\n", " ", " ", "*", " ", Backtick, "b", Backtick>>
    /\ op.ret = Enum(<<<<"a">>, <<"b">>>>)

\* C13 as stated: with an empty default, infer_type never returns Boolean,
\* Integer or Float, whatever the key and the documentation.
C13_EmptyDefaultNeverScalar ==
    (Inferred /\ op.value = <<>>)
        => op.ret.type \notin {"Boolean", "Integer", "Float"}

\* C13, amended: with an empty default, infer_type never returns Boolean,
\* Integer or Float for a key outside the manual-override table; a key of
\* the table gets the type of the table, which is Boolean, Integer or Float
\* for six of its keys.
C13_EmptyDefaultScalarOnlyByOverride ==
    (Inferred /\ op.value = <<>>)
        => IF op.key \in ManualKeys
           THEN op.ret.type = ManualType(op.key)
           ELSE op.ret.type \notin {"Boolean", "Integer", "Float"}

C13_Witness ==
    /\ Inferred
    /\ op.value = <<>>
    /\ op.key = <<"t", "i", "t", "l", "e">>
    /\ op.docs = <<>>
    /\ op.ret = Text

\* the distinct values of a sequence
Distinct(s) == {s[i] : i \in 1..Len(s)}

\* C14: every Enum returned by infer_type carries two distinct allowed
\* values at least; documentation that yields fewer than two distinct
\* tokens never produces an Enum.
C14_EnumHasTwoDistinctValues ==
    Inferred =>
        /\ op.ret.type = "Enum" => Cardinality(Distinct(op.ret.values)) >= 2
        /\ Cardinality(Distinct(extract_enum_values(op.docs))) < 2
              => op.ret.type # "Enum"

----------------------------------------------------------------------------
(* C15: what extract_enum_values collects *)

\* the ways l reads as a bullet: whitespace up to a, an asterisk, whitespace
\* up to b, a backtick, a token free of backticks, and a backtick at c
BulletShapes(l) ==
    {s \in (1..Len(l)) \X (1..Len(l)) \X (1..Len(l)) :
        /\ s[1] + 2 <= s[2]
        /\ s[2] + 3 <= s[3]
        /\ \A i \in 1..s[1] : IsWhitespace(l[i])
        /\ l[s[1] + 1] = "*"
        /\ \A i \in (s[1] + 2)..s[2] : IsWhitespace(l[i])
        /\ l[s[2] + 1] = Backtick
        /\ \A i \in (s[2] + 2)..(s[3] - 1) : l[i] # Backtick
        /\ l[s[3]] = Backtick}

IsBullet(l) == BulletShapes(l) # {}

TokenOf(l) ==
    LET s == CHOOSE s \in BulletShapes(l) : TRUE
    IN SubSeq(l, s[2] + 2, s[3] - 1)

Collected(l) ==
    /\ IsBullet(l)
    /\ ~HasChar(TokenOf(l), " ")
    /\ ~HasChar(TokenOf(l), "=")
    /\ ~(Len(TokenOf(l)) >= 3 /\ SubSeq(TokenOf(l), 1, 3) = <<"e", ".", "g">>)

\* C15: enum extraction scans the whole documentation and collects, in
\* order, the first backtick token of every bullet line whose token holds no
\* space, no '=' and does not start with "e.g"; lines that are no bullets,
\* between or after bullets, neither stop the collection nor remove a token
\* already collected.
C15_CollectsEveryBulletToken ==
    op.name = "extract_enum_values" =>
        LET kept == {j \in 1..NumLines(op.docs) :
                        Collected(LineText(op.docs, j))}
        IN op.ret = [i \in 1..Cardinality(kept) |->
                        TokenOf(LineText(op.docs, Nth(kept, i)))]

C15_Witness ==
    /\ op.name = "extract_enum_values"
    /\ op.docs = <<" ", " ", "*", " ", Backtick, "a", Backtick, " ", "-", " ", "x", "\n", "t", "e", "x", "t", "\n", " ", "*", " ", Backtick, "b", Backtick>>
    /\ op.ret = <<<<"a">>, <<"b">>>>

----------------------------------------------------------------------------
(* Schema side: the categorizer (src/config/categorize.rs).                *)

\* Category
Category ==
    {"Fonts", "Colors", "Window", "Cursor", "Mouse", "Clipboard",
     "Keybindings", "Shell", "Appearance", "Background", "MacOS",
     "GTKLinux", "Scrollback", "Input", "Terminal", "Advanced"}

\* A categorizer that files the keys no rule matches under Appearance.
categorize_key_default_appearance(key) ==
    IF key = <<"t", "h", "e", "m", "e">> THEN "Appearance"
    ELSE IF key = <<"k", "e", "y", "b", "i", "n", "d">> THEN "Keybindings"
    ELSE IF key = <<"p", "a", "l", "e", "t", "t", "e">> THEN "Colors"
    ELSE IF key = <<"c", "o", "n", "f", "i", "g", "-", "f", "i", "l", "e">> THEN "Advanced"
    ELSE IF key = <<"t", "e", "r", "m">> THEN "Terminal"
    ELSE IF key = <<"e", "n", "q", "u", "i", "r", "y", "-", "r", "e", "s", "p", "o", "n", "s", "e">> THEN "Terminal"
    ELSE IF key = <<"t", "i", "t", "l", "e">> THEN "Window"
    ELSE IF key = <<"c", "l", "a", "s", "s">> \/ key = <<"x", "1", "1", "-", "i", "n", "s", "t", "a", "n", "c", "e", "-", "n", "a", "m", "e">> THEN "GTKLinux"
    ELSE IF key = <<"s", "c", "r", "o", "l", "l", "b", "a", "c", "k", "-", "l", "i", "m", "i", "t">> THEN "Scrollback"
    ELSE IF key = <<"l", "i", "n", "k">> \/ key = <<"l", "i", "n", "k", "-", "u", "r", "l">> THEN "Mouse"
    ELSE IF starts_with_str(key, <<"f", "o", "n", "t", "-">>) THEN "Fonts"
    ELSE IF starts_with_str(key, <<"c", "u", "r", "s", "o", "r", "-">>) THEN "Cursor"
    ELSE IF \/ starts_with_str(key, <<"m", "o", "u", "s", "e", "-">>)
            \/ starts_with_str(key, <<"c", "l", "i", "c", "k", "-">>)
    THEN "Mouse"
    ELSE IF \/ starts_with_str(key, <<"c", "l", "i", "p", "b", "o", "a", "r", "d", "-">>)
            \/ starts_with_str(key, <<"c", "o", "p", "y", "-", "o", "n", "-", "s", "e", "l", "e", "c", "t">>)
    THEN "Clipboard"
    ELSE IF \/ starts_with_str(key, <<"s", "h", "e", "l", "l", "-">>)
            \/ key = <<"c", "o", "m", "m", "a", "n", "d">>
            \/ key = <<"w", "a", "i", "t", "-", "a", "f", "t", "e", "r", "-", "c", "o", "m", "m", "a", "n", "d">>
            \/ key = <<"i", "n", "i", "t", "i", "a", "l", "-", "c", "o", "m", "m", "a", "n", "d">>
    THEN "Shell"
    ELSE IF \/ starts_with_str(key, <<"w", "i", "n", "d", "o", "w", "-">>)
            \/ starts_with_str(key, <<"r", "e", "s", "i", "z", "e", "-">>)
            \/ starts_with_str(key, <<"f", "u", "l", "l", "s", "c", "r", "e", "e", "n">>)
            \/ key = <<"c", "o", "n", "f", "i", "r", "m", "-", "c", "l", "o", "s", "e", "-", "s", "u", "r", "f", "a", "c", "e">>
    THEN "Window"
    ELSE IF starts_with_str(key, <<"b", "a", "c", "k", "g", "r", "o", "u", "n", "d">>) THEN "Background"
    ELSE IF \/ starts_with_str(key, <<"f", "o", "r", "e", "g", "r", "o", "u", "n", "d">>)
            \/ starts_with_str(key, <<"s", "e", "l", "e", "c", "t", "i", "o", "n", "-">>)
            \/ contains(key, <<"c", "o", "l", "o", "r">>)
            \/ key = <<"b", "o", "l", "d", "-", "i", "s", "-", "b", "r", "i", "g", "h", "t">>
            \/ key = <<"m", "i", "n", "i", "m", "u", "m", "-", "c", "o", "n", "t", "r", "a", "s", "t">>
            \/ key = <<"p", "a", "l", "e", "t", "t", "e">>
            \/ key = <<"i", "n", "v", "e", "r", "t", "-", "s", "e", "l", "e", "c", "t", "i", "o", "n", "-", "f", "g", "-", "b", "g">>
            \/ key = <<"b", "o", "l", "d", "-", "c", "o", "l", "o", "r">>
            \/ key = <<"f", "a", "i", "n", "t", "-", "o", "p", "a", "c", "i", "t", "y">>
    THEN "Colors"
    ELSE IF \/ starts_with_str(key, <<"m", "a", "c", "o", "s", "-">>)
            \/ starts_with_str(key, <<"a", "u", "t", "o", "-", "u", "p", "d", "a", "t", "e">>)
            \/ key = <<"q", "u", "i", "c", "k", "-", "t", "e", "r", "m", "i", "n", "a", "l", "-", "p", "o", "s", "i", "t", "i", "o", "n">>
            \/ starts_with_str(key, <<"q", "u", "i", "c", "k", "-", "t", "e", "r", "m", "i", "n", "a", "l">>)
    THEN "MacOS"
    ELSE IF \/ starts_with_str(key, <<"g", "t", "k", "-">>)
            \/ starts_with_str(key, <<"a", "d", "w", "-">>)
            \/ starts_with_str(key, <<"l", "i", "n", "u", "x", "-">>)
    THEN "GTKLinux"
    ELSE IF \/ starts_with_str(key, <<"s", "c", "r", "o", "l", "l", "b", "a", "c", "k">>)
            \/ starts_with_str(key, <<"s", "c", "r", "o", "l", "l", "-">>)
    THEN "Scrollback"
    ELSE IF \/ starts_with_str(key, <<"i", "n", "p", "u", "t", "-">>)
            \/ key = <<"v", "t", "-", "k", "a", "m", "-", "a", "l", "l", "o", "w", "e", "d">>
            \/ starts_with_str(key, <<"d", "e", "s", "k", "t", "o", "p", "-", "n", "o", "t", "i", "f", "i", "c", "a", "t", "i", "o", "n", "s">>)
    THEN "Input"
    ELSE IF \/ key = <<"a", "d", "j", "u", "s", "t", "-", "c", "e", "l", "l", "-", "w", "i", "d", "t", "h">>
            \/ key = <<"a", "d", "j", "u", "s", "t", "-", "c", "e", "l", "l", "-", "h", "e", "i", "g", "h", "t">>
            \/ key = <<"a", "d", "j", "u", "s", "t", "-", "f", "o", "n", "t", "-", "b", "a", "s", "e", "l", "i", "n", "e">>
            \/ key = <<"a", "d", "j", "u", "s", "t", "-", "u", "n", "d", "e", "r", "l", "i", "n", "e", "-", "p", "o", "s", "i", "t", "i", "o", "n">>
            \/ key = <<"a", "d", "j", "u", "s", "t", "-", "u", "n", "d", "e", "r", "l", "i", "n", "e", "-", "t", "h", "i", "c", "k", "n", "e", "s", "s">>
            \/ key = <<"a", "d", "j", "u", "s", "t", "-", "s", "t", "r", "i", "k", "e", "t", "h", "r", "o", "u", "g", "h", "-", "p", "o", "s", "i", "t", "i", "o", "n">>
            \/ key = <<"a", "d", "j", "u", "s", "t", "-", "s", "t", "r", "i", "k", "e", "t", "h", "r", "o", "u", "g", "h", "-", "t", "h", "i", "c", "k", "n", "e", "s", "s">>
            \/ key = <<"a", "d", "j", "u", "s", "t", "-", "o", "v", "e", "r", "l", "i", "n", "e", "-", "p", "o", "s", "i", "t", "i", "o", "n">>
            \/ key = <<"a", "d", "j", "u", "s", "t", "-", "o", "v", "e", "r", "l", "i", "n", "e", "-", "t", "h", "i", "c", "k", "n", "e", "s", "s">>
            \/ key = <<"a", "d", "j", "u", "s", "t", "-", "c", "u", "r", "s", "o", "r", "-", "t", "h", "i", "c", "k", "n", "e", "s", "s">>
            \/ key = <<"a", "d", "j", "u", "s", "t", "-", "c", "u", "r", "s", "o", "r", "-", "h", "e", "i", "g", "h", "t">>
            \/ key = <<"a", "d", "j", "u", "s", "t", "-", "b", "o", "x", "-", "t", "h", "i", "c", "k", "n", "e", "s", "s">>
    THEN "Fonts"
    ELSE IF \/ key = <<"u", "n", "f", "o", "c", "u", "s", "e", "d", "-", "s", "p", "l", "i", "t", "-", "f", "i", "l", "l">>
            \/ key = <<"s", "p", "l", "i", "t", "-", "c", "o", "l", "o", "r">>
            \/ starts_with_str(key, <<"u", "n", "f", "o", "c", "u", "s", "e", "d", "-", "s", "p", "l", "i", "t">>)
    THEN "Appearance"
    ELSE IF \/ key = <<"o", "s", "c", "-", "c", "o", "l", "o", "r", "-", "r", "e", "p", "o", "r", "t", "-", "f", "o", "r", "m", "a", "t">>
            \/ key = <<"a", "b", "n", "o", "r", "m", "a", "l", "-", "c", "o", "m", "m", "a", "n", "d", "-", "e", "x", "i", "t", "-", "r", "u", "n", "t", "i", "m", "e">>
            \/ key = <<"i", "m", "a", "g", "e", "-", "s", "t", "o", "r", "a", "g", "e", "-", "l", "i", "m", "i", "t">>
            \/ key = <<"c", "u", "s", "t", "o", "m", "-", "s", "h", "a", "d", "e", "r">>
            \/ key = <<"c", "u", "s", "t", "o", "m", "-", "s", "h", "a", "d", "e", "r", "-", "a", "n", "i", "m", "a", "t", "i", "o", "n">>
            \/ starts_with_str(key, <<"g", "r", "a", "p", "h", "e", "m", "e", "-">>)
            \/ starts_with_str(key, <<"f", "r", "e", "e", "t", "y", "p", "e", "-">>)
            \/ key = <<"a", "s", "y", "n", "c", "-", "b", "a", "c", "k", "e", "n", "d">>
    THEN "Advanced"
    ELSE IF \/ key = <<"m", "i", "n", "i", "m", "u", "m", "-", "c", "o", "n", "t", "r", "a", "s", "t">>
            \/ key = <<"b", "o", "l", "d", "-", "i", "s", "-", "b", "r", "i", "g", "h", "t">>
            \/ starts_with_str(key, <<"c", "e", "l", "l", "-">>)
            \/ starts_with_str(key, <<"f", "o", "c", "u", "s", "-">>)
            \/ starts_with_str(key, <<"u", "n", "f", "o", "c", "u", "s", "e", "d", "-">>)
    THEN "Appearance"
    ELSE "Appearance"

\* A categorizer that tries the Colors rule after the Appearance and
\* Advanced rules.
categorize_key_colors_last(key) ==
    IF key = <<"t", "h", "e", "m", "e">> THEN "Appearance"
    ELSE IF key = <<"k", "e", "y", "b", "i", "n", "d">> THEN "Keybindings"
    ELSE IF key = <<"p", "a", "l", "e", "t", "t", "e">> THEN "Colors"
    ELSE IF key = <<"c", "o", "n", "f", "i", "g", "-", "f", "i", "l", "e">> THEN "Advanced"
    ELSE IF key = <<"t", "e", "r", "m">> THEN "Terminal"
    ELSE IF key = <<"e", "n", "q", "u", "i", "r", "y", "-", "r", "e", "s", "p", "o", "n", "s", "e">> THEN "Terminal"
    ELSE IF key = <<"t", "i", "t", "l", "e">> THEN "Window"
    ELSE IF key = <<"c", "l", "a", "s", "s">> \/ key = <<"x", "1", "1", "-", "i", "n", "s", "t", "a", "n", "c", "e", "-", "n", "a", "m", "e">> THEN "GTKLinux"
    ELSE IF key = <<"s", "c", "r", "o", "l", "l", "b", "a", "c", "k", "-", "l", "i", "m", "i", "t">> THEN "Scrollback"
    ELSE IF key = <<"l", "i", "n", "k">> \/ key = <<"l", "i", "n", "k", "-", "u", "r", "l">> THEN "Mouse"
    ELSE IF starts_with_str(key, <<"f", "o", "n", "t", "-">>) THEN "Fonts"
    ELSE IF starts_with_str(key, <<"c", "u", "r", "s", "o", "r", "-">>) THEN "Cursor"
    ELSE IF \/ starts_with_str(key, <<"m", "o", "u", "s", "e", "-">>)
            \/ starts_with_str(key, <<"c", "l", "i", "c", "k", "-">>)
    THEN "Mouse"
    ELSE IF \/ starts_with_str(key, <<"c", "l", "i", "p", "b", "o", "a", "r", "d", "-">>)
            \/ starts_with_str(key, <<"c", "o", "p", "y", "-", "o", "n", "-", "s", "e", "l", "e", "c", "t">>)
    THEN "Clipboard"
    ELSE IF \/ starts_with_str(key, <<"s", "h", "e", "l", "l", "-">>)
            \/ key = <<"c", "o", "m", "m", "a", "n", "d">>
            \/ key = <<"w", "a", "i", "t", "-", "a", "f", "t", "e", "r", "-", "c", "o", "m", "m", "a", "n", "d">>
            \/ key = <<"i", "n", "i", "t", "i", "a", "l", "-", "c", "o", "m", "m", "a", "n", "d">>
    THEN "Shell"
    ELSE IF \/ starts_with_str(key, <<"w", "i", "n", "d", "o", "w", "-">>)
            \/ starts_with_str(key, <<"r", "e", "s", "i", "z", "e", "-">>)
            \/ starts_with_str(key, <<"f", "u", "l", "l", "s", "c", "r", "e", "e", "n">>)
            \/ key = <<"c", "o", "n", "f", "i", "r", "m", "-", "c", "l", "o", "s", "e", "-", "s", "u", "r", "f", "a", "c", "e">>
    THEN "Window"
    ELSE IF starts_with_str(key, <<"b", "a", "c", "k", "g", "r", "o", "u", "n", "d">>) THEN "Background"
    ELSE IF \/ starts_with_str(key, <<"m", "a", "c", "o", "s", "-">>)
            \/ starts_with_str(key, <<"a", "u", "t", "o", "-", "u", "p", "d", "a", "t", "e">>)
            \/ key = <<"q", "u", "i", "c", "k", "-", "t", "e", "r", "m", "i", "n", "a", "l", "-", "p", "o", "s", "i", "t", "i", "o", "n">>
            \/ starts_with_str(key, <<"q", "u", "i", "c", "k", "-", "t", "e", "r", "m", "i", "n", "a", "l">>)
    THEN "MacOS"
    ELSE IF \/ starts_with_str(key, <<"g", "t", "k", "-">>)
            \/ starts_with_str(key, <<"a", "d", "w", "-">>)
            \/ starts_with_str(key, <<"l", "i", "n", "u", "x", "-">>)
    THEN "GTKLinux"
    ELSE IF \/ starts_with_str(key, <<"s", "c", "r", "o", "l", "l", "b", "a", "c", "k">>)
            \/ starts_with_str(key, <<"s", "c", "r", "o", "l", "l", "-">>)
    THEN "Scrollback"
    ELSE IF \/ starts_with_str(key, <<"i", "n", "p", "u", "t", "-">>)
            \/ key = <<"v", "t", "-", "k", "a", "m", "-", "a", "l", "l", "o", "w", "e", "d">>
            \/ starts_with_str(key, <<"d", "e", "s", "k", "t", "o", "p", "-", "n", "o", "t", "i", "f", "i", "c", "a", "t", "i", "o", "n", "s">>)
    THEN "Input"
    ELSE IF \/ key = <<"a", "d", "j", "u", "s", "t", "-", "c", "e", "l", "l", "-", "w", "i", "d", "t", "h">>
            \/ key = <<"a", "d", "j", "u", "s", "t", "-", "c", "e", "l", "l", "-", "h", "e", "i", "g", "h", "t">>
            \/ key = <<"a", "d", "j", "u", "s", "t", "-", "f", "o", "n", "t", "-", "b", "a", "s", "e", "l", "i", "n", "e">>
            \/ key = <<"a", "d", "j", "u", "s", "t", "-", "u", "n", "d", "e", "r", "l", "i", "n", "e", "-", "p", "o", "s", "i", "t", "i", "o", "n">>
            \/ key = <<"a", "d", "j", "u", "s", "t", "-", "u", "n", "d", "e", "r", "l", "i", "n", "e", "-", "t", "h", "i", "c", "k", "n", "e", "s", "s">>
            \/ key = <<"a", "d", "j", "u", "s", "t", "-", "s", "t", "r", "i", "k", "e", "t", "h", "r", "o", "u", "g", "h", "-", "p", "o", "s", "i", "t", "i", "o", "n">>
            \/ key = <<"a", "d", "j", "u", "s", "t", "-", "s", "t", "r", "i", "k", "e", "t", "h", "r", "o", "u", "g", "h", "-", "t", "h", "i", "c", "k", "n", "e", "s", "s">>
            \/ key = <<"a", "d", "j", "u", "s", "t", "-", "o", "v", "e", "r", "l", "i", "n", "e", "-", "p", "o", "s", "i", "t", "i", "o", "n">>
            \/ key = <<"a", "d", "j", "u", "s", "t", "-", "o", "v", "e", "r", "l", "i", "n", "e", "-", "t", "h", "i", "c", "k", "n", "e", "s", "s">>
            \/ key = <<"a", "d", "j", "u", "s", "t", "-", "c", "u", "r", "s", "o", "r", "-", "t", "h", "i", "c", "k", "n", "e", "s", "s">>
            \/ key = <<"a", "d", "j", "u", "s", "t", "-", "c", "u", "r", "s", "o", "r", "-", "h", "e", "i", "g", "h", "t">>
            \/ key = <<"a", "d", "j", "u", "s", "t", "-", "b", "o", "x", "-", "t", "h", "i", "c", "k", "n", "e", "s", "s">>
    THEN "Fonts"
    ELSE IF \/ key = <<"u", "n", "f", "o", "c", "u", "s", "e", "d", "-", "s", "p", "l", "i", "t", "-", "f", "i", "l", "l">>
            \/ key = <<"s", "p", "l", "i", "t", "-", "c", "o", "l", "o", "r">>
            \/ starts_with_str(key, <<"u", "n", "f", "o", "c", "u", "s", "e", "d", "-", "s", "p", "l", "i", "t">>)
    THEN "Appearance"
    ELSE IF \/ key = <<"o", "s", "c", "-", "c", "o", "l", "o", "r", "-", "r", "e", "p", "o", "r", "t", "-", "f", "o", "r", "m", "a", "t">>
            \/ key = <<"a", "b", "n", "o", "r", "m", "a", "l", "-", "c", "o", "m", "m", "a", "n", "d", "-", "e", "x", "i", "t", "-", "r", "u", "n", "t", "i", "m", "e">>
            \/ key = <<"i", "m", "a", "g", "e", "-", "s", "t", "o", "r", "a", "g", "e", "-", "l", "i", "m", "i", "t">>
            \/ key = <<"c", "u", "s", "t", "o", "m", "-", "s", "h", "a", "d", "e", "r">>
            \/ key = <<"c", "u", "s", "t", "o", "m", "-", "s", "h", "a", "d", "e", "r", "-", "a", "n", "i", "m", "a", "t", "i", "o", "n">>
            \/ starts_with_str(key, <<"g", "r", "a", "p", "h", "e", "m", "e", "-">>)
            \/ starts_with_str(key, <<"f", "r", "e", "e", "t", "y", "p", "e", "-">>)
            \/ key = <<"a", "s", "y", "n", "c", "-", "b", "a", "c", "k", "e", "n", "d">>
    THEN "Advanced"
    ELSE IF \/ key = <<"m", "i", "n", "i", "m", "u", "m", "-", "c", "o", "n", "t", "r", "a", "s", "t">>
            \/ key = <<"b", "o", "l", "d", "-", "i", "s", "-", "b", "r", "i", "g", "h", "t">>
            \/ starts_with_str(key, <<"c", "e", "l", "l", "-">>)
            \/ starts_with_str(key, <<"f", "o", "c", "u", "s", "-">>)
            \/ starts_with_str(key, <<"u", "n", "f", "o", "c", "u", "s", "e", "d", "-">>)
    THEN "Appearance"
    ELSE IF \/ starts_with_str(key, <<"f", "o", "r", "e", "g", "r", "o", "u", "n", "d">>)
            \/ starts_with_str(key, <<"s", "e", "l", "e", "c", "t", "i", "o", "n", "-">>)
            \/ contains(key, <<"c", "o", "l", "o", "r">>)
            \/ key = <<"b", "o", "l", "d", "-", "i", "s", "-", "b", "r", "i", "g", "h", "t">>
            \/ key = <<"m", "i", "n", "i", "m", "u", "m", "-", "c", "o", "n", "t", "r", "a", "s", "t">>
            \/ key = <<"p", "a", "l", "e", "t", "t", "e">>
            \/ key = <<"i", "n", "v", "e", "r", "t", "-", "s", "e", "l", "e", "c", "t", "i", "o", "n", "-", "f", "g", "-", "b", "g">>
            \/ key = <<"b", "o", "l", "d", "-", "c", "o", "l", "o", "r">>
            \/ key = <<"f", "a", "i", "n", "t", "-", "o", "p", "a", "c", "i", "t", "y">>
    THEN "Colors"
    ELSE "Advanced"

categorize_key(key) ==
    IF key = <<"t", "h", "e", "m", "e">> THEN "Appearance"
    ELSE IF key = <<"k", "e", "y", "b", "i", "n", "d">> THEN "Keybindings"
    ELSE IF key = <<"p", "a", "l", "e", "t", "t", "e">> THEN "Colors"
    ELSE IF key = <<"c", "o", "n", "f", "i", "g", "-", "f", "i", "l", "e">> THEN "Advanced"
    ELSE IF key = <<"t", "e", "r", "m">> THEN "Terminal"
    ELSE IF key = <<"e", "n", "q", "u", "i", "r", "y", "-", "r", "e", "s", "p", "o", "n", "s", "e">> THEN "Terminal"
    ELSE IF key = <<"t", "i", "t", "l", "e">> THEN "Window"
    ELSE IF key = <<"c", "l", "a", "s", "s">> \/ key = <<"x", "1", "1", "-", "i", "n", "s", "t", "a", "n", "c", "e", "-", "n", "a", "m", "e">> THEN "GTKLinux"
    ELSE IF key = <<"s", "c", "r", "o", "l", "l", "b", "a", "c", "k", "-", "l", "i", "m", "i", "t">> THEN "Scrollback"
    ELSE IF key = <<"l", "i", "n", "k">> \/ key = <<"l", "i", "n", "k", "-", "u", "r", "l">> THEN "Mouse"
    ELSE IF starts_with_str(key, <<"f", "o", "n", "t", "-">>) THEN "Fonts"
    ELSE IF starts_with_str(key, <<"c", "u", "r", "s", "o", "r", "-">>) THEN "Cursor"
    ELSE IF \/ starts_with_str(key, <<"m", "o", "u", "s", "e", "-">>)
            \/ starts_with_str(key, <<"c", "l", "i", "c", "k", "-">>)
    THEN "Mouse"
    ELSE IF \/ starts_with_str(key, <<"c", "l", "i", "p", "b", "o", "a", "r", "d", "-">>)
            \/ starts_with_str(key, <<"c", "o", "p", "y", "-", "o", "n", "-", "s", "e", "l", "e", "c", "t">>)
    THEN "Clipboard"
    ELSE IF \/ starts_with_str(key, <<"s", "h", "e", "l", "l", "-">>)
            \/ key = <<"c", "o", "m", "m", "a", "n", "d">>
            \/ key = <<"w", "a", "i", "t", "-", "a", "f", "t", "e", "r", "-", "c", "o", "m", "m", "a", "n", "d">>
            \/ key = <<"i", "n", "i", "t", "i", "a", "l", "-", "c", "o", "m", "m", "a", "n", "d">>
    THEN "Shell"
    ELSE IF \/ starts_with_str(key, <<"w", "i", "n", "d", "o", "w", "-">>)
            \/ starts_with_str(key, <<"r", "e", "s", "i", "z", "e", "-">>)
            \/ starts_with_str(key, <<"f", "u", "l", "l", "s", "c", "r", "e", "e", "n">>)
            \/ key = <<"c", "o", "n", "f", "i", "r", "m", "-", "c", "l", "o", "s", "e", "-", "s", "u", "r", "f", "a", "c", "e">>
    THEN "Window"
    ELSE IF starts_with_str(key, <<"b", "a", "c", "k", "g", "r", "o", "u", "n", "d">>) THEN "Background"
    ELSE IF \/ starts_with_str(key, <<"f", "o", "r", "e", "g", "r", "o", "u", "n", "d">>)
            \/ starts_with_str(key, <<"s", "e", "l", "e", "c", "t", "i", "o", "n", "-">>)
            \/ contains(key, <<"c", "o", "l", "o", "r">>)
            \/ key = <<"b", "o", "l", "d", "-", "i", "s", "-", "b", "r", "i", "g", "h", "t">>
            \/ key = <<"m", "i", "n", "i", "m", "u", "m", "-", "c", "o", "n", "t", "r", "a", "s", "t">>
            \/ key = <<"p", "a", "l", "e", "t", "t", "e">>
            \/ key = <<"i", "n", "v", "e", "r", "t", "-", "s", "e", "l", "e", "c", "t", "i", "o", "n", "-", "f", "g", "-", "b", "g">>
            \/ key = <<"b", "o", "l", "d", "-", "c", "o", "l", "o", "r">>
            \/ key = <<"f", "a", "i", "n", "t", "-", "o", "p", "a", "c", "i", "t", "y">>
    THEN "Colors"
    ELSE IF \/ starts_with_str(key, <<"m", "a", "c", "o", "s", "-">>)
            \/ starts_with_str(key, <<"a", "u", "t", "o", "-", "u", "p", "d", "a", "t", "e">>)
            \/ key = <<"q", "u", "i", "c", "k", "-", "t", "e", "r", "m", "i", "n", "a", "l", "-", "p", "o", "s", "i", "t", "i", "o", "n">>
            \/ starts_with_str(key, <<"q", "u", "i", "c", "k", "-", "t", "e", "r", "m", "i", "n", "a", "l">>)
    THEN "MacOS"
    ELSE IF \/ starts_with_str(key, <<"g", "t", "k", "-">>)
            \/ starts_with_str(key, <<"a", "d", "w", "-">>)
            \/ starts_with_str(key, <<"l", "i", "n", "u", "x", "-">>)
    THEN "GTKLinux"
    ELSE IF \/ starts_with_str(key, <<"s", "c", "r", "o", "l", "l", "b", "a", "c", "k">>)
            \/ starts_with_str(key, <<"s", "c", "r", "o", "l", "l", "-">>)
    THEN "Scrollback"
    ELSE IF \/ starts_with_str(key, <<"i", "n", "p", "u", "t", "-">>)
            \/ key = <<"v", "t", "-", "k", "a", "m", "-", "a", "l", "l", "o", "w", "e", "d">>
            \/ starts_with_str(key, <<"d", "e", "s", "k", "t", "o", "p", "-", "n", "o", "t", "i", "f", "i", "c", "a", "t", "i", "o", "n", "s">>)
    THEN "Input"
    ELSE IF \/ key = <<"a", "d", "j", "u", "s", "t", "-", "c", "e", "l", "l", "-", "w", "i", "d", "t", "h">>
            \/ key = <<"a", "d", "j", "u", "s", "t", "-", "c", "e", "l", "l", "-", "h", "e", "i", "g", "h", "t">>
            \/ key = <<"a", "d", "j", "u", "s", "t", "-", "f", "o", "n", "t", "-", "b", "a", "s", "e", "l", "i", "n", "e">>
            \/ key = <<"a", "d", "j", "u", "s", "t", "-", "u", "n", "d", "e", "r", "l", "i", "n", "e", "-", "p", "o", "s", "i", "t", "i", "o", "n">>
            \/ key = <<"a", "d", "j", "u", "s", "t", "-", "u", "n", "d", "e", "r", "l", "i", "n", "e", "-", "t", "h", "i", "c", "k", "n", "e", "s", "s">>
            \/ key = <<"a", "d", "j", "u", "s", "t", "-", "s", "t", "r", "i", "k", "e", "t", "h", "r", "o", "u", "g", "h", "-", "p", "o", "s", "i", "t", "i", "o", "n">>
            \/ key = <<"a", "d", "j", "u", "s", "t", "-", "s", "t", "r", "i", "k", "e", "t", "h", "r", "o", "u", "g", "h", "-", "t", "h", "i", "c", "k", "n", "e", "s", "s">>
            \/ key = <<"a", "d", "j", "u", "s", "t", "-", "o", "v", "e", "r", "l", "i", "n", "e", "-", "p", "o", "s", "i", "t", "i", "o", "n">>
            \/ key = <<"a", "d", "j", "u", "s", "t", "-", "o", "v", "e", "r", "l", "i", "n", "e", "-", "t", "h", "i", "c", "k", "n", "e", "s", "s">>
            \/ key = <<"a", "d", "j", "u", "s", "t", "-", "c", "u", "r", "s", "o", "r", "-", "t", "h", "i", "c", "k", "n", "e", "s", "s">>
            \/ key = <<"a", "d", "j", "u", "s", "t", "-", "c", "u", "r", "s", "o", "r", "-", "h", "e", "i", "g", "h", "t">>
            \/ key = <<"a", "d", "j", "u", "s", "t", "-", "b", "o", "x", "-", "t", "h", "i", "c", "k", "n", "e", "s", "s">>
    THEN "Fonts"
    ELSE IF \/ key = <<"u", "n", "f", "o", "c", "u", "s", "e", "d", "-", "s", "p", "l", "i", "t", "-", "f", "i", "l", "l">>
            \/ key = <<"s", "p", "l", "i", "t", "-", "c", "o", "l", "o", "r">>
            \/ starts_with_str(key, <<"u", "n", "f", "o", "c", "u", "s", "e", "d", "-", "s", "p", "l", "i", "t">>)
    THEN "Appearance"
    ELSE IF \/ key = <<"o", "s", "c", "-", "c", "o", "l", "o", "r", "-", "r", "e", "p", "o", "r", "t", "-", "f", "o", "r", "m", "a", "t">>
            \/ key = <<"a", "b", "n", "o", "r", "m", "a", "l", "-", "c", "o", "m", "m", "a", "n", "d", "-", "e", "x", "i", "t", "-", "r", "u", "n", "t", "i", "m", "e">>
            \/ key = <<"i", "m", "a", "g", "e", "-", "s", "t", "o", "r", "a", "g", "e", "-", "l", "i", "m", "i", "t">>
            \/ key = <<"c", "u", "s", "t", "o", "m", "-", "s", "h", "a", "d", "e", "r">>
            \/ key = <<"c", "u", "s", "t", "o", "m", "-", "s", "h", "a", "d", "e", "r", "-", "a", "n", "i", "m", "a", "t", "i", "o", "n">>
            \/ starts_with_str(key, <<"g", "r", "a", "p", "h", "e", "m", "e", "-">>)
            \/ starts_with_str(key, <<"f", "r", "e", "e", "t", "y", "p", "e", "-">>)
            \/ key = <<"a", "s", "y", "n", "c", "-", "b", "a", "c", "k", "e", "n", "d">>
    THEN "Advanced"
    ELSE IF \/ key = <<"m", "i", "n", "i", "m", "u", "m", "-", "c", "o", "n", "t", "r", "a", "s", "t">>
            \/ key = <<"b", "o", "l", "d", "-", "i", "s", "-", "b", "r", "i", "g", "h", "t">>
            \/ starts_with_str(key, <<"c", "e", "l", "l", "-">>)
            \/ starts_with_str(key, <<"f", "o", "c", "u", "s", "-">>)
            \/ starts_with_str(key, <<"u", "n", "f", "o", "c", "u", "s", "e", "d", "-">>)
    THEN "Appearance"
    ELSE "Advanced"

----------------------------------------------------------------------------
(* SpecKey: categorize_key on every key its rules and tests name, and on   *)
(* every key made of a prefix of CatPrefixes and a stem of CatStems.       *)

CatNames ==
    {<<"t", "h", "e", "m", "e">>, <<"k", "e", "y", "b", "i", "n", "d">>, <<"p", "a", "l", "e", "t", "t", "e">>, <<"c", "o", "n", "f", "i", "g", "-", "f", "i", "l", "e">>, <<"t", "e", "r", "m">>,
     <<"e", "n", "q", "u", "i", "r", "y", "-", "r", "e", "s", "p", "o", "n", "s", "e">>, <<"t", "i", "t", "l", "e">>, <<"c", "l", "a", "s", "s">>, <<"x", "1", "1", "-", "i", "n", "s", "t", "a", "n", "c", "e", "-", "n", "a", "m", "e">>,
     <<"s", "c", "r", "o", "l", "l", "b", "a", "c", "k", "-", "l", "i", "m", "i", "t">>, <<"l", "i", "n", "k">>, <<"l", "i", "n", "k", "-", "u", "r", "l">>, <<"c", "o", "m", "m", "a", "n", "d">>,
     <<"w", "a", "i", "t", "-", "a", "f", "t", "e", "r", "-", "c", "o", "m", "m", "a", "n", "d">>, <<"i", "n", "i", "t", "i", "a", "l", "-", "c", "o", "m", "m", "a", "n", "d">>,
     <<"c", "o", "n", "f", "i", "r", "m", "-", "c", "l", "o", "s", "e", "-", "s", "u", "r", "f", "a", "c", "e">>, <<"b", "o", "l", "d", "-", "i", "s", "-", "b", "r", "i", "g", "h", "t">>, <<"m", "i", "n", "i", "m", "u", "m", "-", "c", "o", "n", "t", "r", "a", "s", "t">>,
     <<"i", "n", "v", "e", "r", "t", "-", "s", "e", "l", "e", "c", "t", "i", "o", "n", "-", "f", "g", "-", "b", "g">>, <<"b", "o", "l", "d", "-", "c", "o", "l", "o", "r">>, <<"f", "a", "i", "n", "t", "-", "o", "p", "a", "c", "i", "t", "y">>,
     <<"q", "u", "i", "c", "k", "-", "t", "e", "r", "m", "i", "n", "a", "l", "-", "p", "o", "s", "i", "t", "i", "o", "n">>, <<"v", "t", "-", "k", "a", "m", "-", "a", "l", "l", "o", "w", "e", "d">>,
     <<"a", "d", "j", "u", "s", "t", "-", "c", "e", "l", "l", "-", "w", "i", "d", "t", "h">>, <<"a", "d", "j", "u", "s", "t", "-", "c", "e", "l", "l", "-", "h", "e", "i", "g", "h", "t">>,
     <<"a", "d", "j", "u", "s", "t", "-", "f", "o", "n", "t", "-", "b", "a", "s", "e", "l", "i", "n", "e">>, <<"a", "d", "j", "u", "s", "t", "-", "u", "n", "d", "e", "r", "l", "i", "n", "e", "-", "p", "o", "s", "i", "t", "i", "o", "n">>,
     <<"a", "d", "j", "u", "s", "t", "-", "u", "n", "d", "e", "r", "l", "i", "n", "e", "-", "t", "h", "i", "c", "k", "n", "e", "s", "s">>, <<"a", "d", "j", "u", "s", "t", "-", "s", "t", "r", "i", "k", "e", "t", "h", "r", "o", "u", "g", "h", "-", "p", "o", "s", "i", "t", "i", "o", "n">>,
     <<"a", "d", "j", "u", "s", "t", "-", "s", "t", "r", "i", "k", "e", "t", "h", "r", "o", "u", "g", "h", "-", "t", "h", "i", "c", "k", "n", "e", "s", "s">>, <<"a", "d", "j", "u", "s", "t", "-", "o", "v", "e", "r", "l", "i", "n", "e", "-", "p", "o", "s", "i", "t", "i", "o", "n">>,
     <<"a", "d", "j", "u", "s", "t", "-", "o", "v", "e", "r", "l", "i", "n", "e", "-", "t", "h", "i", "c", "k", "n", "e", "s", "s">>, <<"a", "d", "j", "u", "s", "t", "-", "c", "u", "r", "s", "o", "r", "-", "t", "h", "i", "c", "k", "n", "e", "s", "s">>,
     <<"a", "d", "j", "u", "s", "t", "-", "c", "u", "r", "s", "o", "r", "-", "h", "e", "i", "g", "h", "t">>, <<"a", "d", "j", "u", "s", "t", "-", "b", "o", "x", "-", "t", "h", "i", "c", "k", "n", "e", "s", "s">>,
     <<"u", "n", "f", "o", "c", "u", "s", "e", "d", "-", "s", "p", "l", "i", "t", "-", "f", "i", "l", "l">>, <<"s", "p", "l", "i", "t", "-", "c", "o", "l", "o", "r">>,
     <<"o", "s", "c", "-", "c", "o", "l", "o", "r", "-", "r", "e", "p", "o", "r", "t", "-", "f", "o", "r", "m", "a", "t">>, <<"a", "b", "n", "o", "r", "m", "a", "l", "-", "c", "o", "m", "m", "a", "n", "d", "-", "e", "x", "i", "t", "-", "r", "u", "n", "t", "i", "m", "e">>,
     <<"i", "m", "a", "g", "e", "-", "s", "t", "o", "r", "a", "g", "e", "-", "l", "i", "m", "i", "t">>, <<"c", "u", "s", "t", "o", "m", "-", "s", "h", "a", "d", "e", "r">>,
     <<"c", "u", "s", "t", "o", "m", "-", "s", "h", "a", "d", "e", "r", "-", "a", "n", "i", "m", "a", "t", "i", "o", "n">>, <<"a", "s", "y", "n", "c", "-", "b", "a", "c", "k", "e", "n", "d">>,
     <<"t", "o", "t", "a", "l", "l", "y", "-", "u", "n", "k", "n", "o", "w", "n", "-", "k", "e", "y">>, <<"w", "o", "r", "k", "i", "n", "g", "-", "d", "i", "r", "e", "c", "t", "o", "r", "y">>, <<"T", "h", "e", "m", "e">>,
     <<"t", "h", "e", "m", "e", "s">>, <<" ", "t", "h", "e", "m", "e">>, <<"l", "i", "n", "k", "e", "d">>}

CatPrefixes ==
    {<<>>, <<"f", "o", "n", "t", "-">>, <<"c", "u", "r", "s", "o", "r", "-">>, <<"m", "o", "u", "s", "e", "-">>, <<"c", "l", "i", "c", "k", "-">>, <<"c", "l", "i", "p", "b", "o", "a", "r", "d", "-">>,
     <<"c", "o", "p", "y", "-", "o", "n", "-", "s", "e", "l", "e", "c", "t">>, <<"s", "h", "e", "l", "l", "-">>, <<"w", "i", "n", "d", "o", "w", "-">>, <<"r", "e", "s", "i", "z", "e", "-">>,
     <<"f", "u", "l", "l", "s", "c", "r", "e", "e", "n">>, <<"b", "a", "c", "k", "g", "r", "o", "u", "n", "d">>, <<"f", "o", "r", "e", "g", "r", "o", "u", "n", "d">>, <<"s", "e", "l", "e", "c", "t", "i", "o", "n", "-">>,
     <<"m", "a", "c", "o", "s", "-">>, <<"a", "u", "t", "o", "-", "u", "p", "d", "a", "t", "e">>, <<"q", "u", "i", "c", "k", "-", "t", "e", "r", "m", "i", "n", "a", "l">>, <<"g", "t", "k", "-">>, <<"a", "d", "w", "-">>,
     <<"l", "i", "n", "u", "x", "-">>, <<"s", "c", "r", "o", "l", "l", "b", "a", "c", "k">>, <<"s", "c", "r", "o", "l", "l", "-">>, <<"i", "n", "p", "u", "t", "-">>,
     <<"d", "e", "s", "k", "t", "o", "p", "-", "n", "o", "t", "i", "f", "i", "c", "a", "t", "i", "o", "n", "s">>, <<"g", "r", "a", "p", "h", "e", "m", "e", "-">>, <<"f", "r", "e", "e", "t", "y", "p", "e", "-">>, <<"c", "e", "l", "l", "-">>,
     <<"f", "o", "c", "u", "s", "-">>, <<"u", "n", "f", "o", "c", "u", "s", "e", "d", "-">>, <<"u", "n", "f", "o", "c", "u", "s", "e", "d", "-", "s", "p", "l", "i", "t">>, <<"s", "p", "l", "i", "t", "-">>,
     <<"a", "d", "j", "u", "s", "t", "-">>, <<"o", "s", "c", "-">>, <<"x", "-">>, <<"x", "-", "f", "o", "n", "t", "-">>, <<"f", "o", "n", "t">>}

CatStems ==
    {<<>>, <<"x">>, <<"c", "o", "l", "o", "r">>, <<"-", "c", "o", "l", "o", "r">>, <<"c", "o", "l", "o", "u", "r">>, <<"C", "o", "l", "o", "r">>,
     <<"x", "-", "c", "o", "l", "o", "r", "-", "x">>}

CatKeys == CatNames \cup {p \o s : p \in CatPrefixes, s \in CatStems}

\* categorize_key(key)
CategorizeKey ==
    /\ op.name = "input"
    /\ op' = Applied("categorize_key", categorize_key(op.key))
    /\ pre' = Before
    /\ UNCHANGED <<entries, disk>>
    /\ UNCHANGED server

InitKey ==
    /\ entries = new
    /\ disk = NoFile
    /\ op \in {Input(k, <<>>, <<>>) : k \in CatKeys}
    /\ pre = [entries |-> new, disk |-> NoFile]
    /\ ServerStart

NextKey == CategorizeKey

SpecKey == InitKey /\ [][NextKey]_vars

----------------------------------------------------------------------------
(* C16, C17 *)

Categorized == op.name = "categorize_key"

\* the keys of the exact-name table that opens categorize_key
ExactNames ==
    {<<"t", "h", "e", "m", "e">>, <<"k", "e", "y", "b", "i", "n", "d">>, <<"p", "a", "l", "e", "t", "t", "e">>, <<"c", "o", "n", "f", "i", "g", "-", "f", "i", "l", "e">>, <<"t", "e", "r", "m">>,
     <<"e", "n", "q", "u", "i", "r", "y", "-", "r", "e", "s", "p", "o", "n", "s", "e">>, <<"t", "i", "t", "l", "e">>, <<"c", "l", "a", "s", "s">>, <<"x", "1", "1", "-", "i", "n", "s", "t", "a", "n", "c", "e", "-", "n", "a", "m", "e">>,
     <<"s", "c", "r", "o", "l", "l", "b", "a", "c", "k", "-", "l", "i", "m", "i", "t">>, <<"l", "i", "n", "k">>, <<"l", "i", "n", "k", "-", "u", "r", "l">>}

\* the keys the rules after the table name in full
RuleNames ==
    {<<"c", "o", "m", "m", "a", "n", "d">>, <<"w", "a", "i", "t", "-", "a", "f", "t", "e", "r", "-", "c", "o", "m", "m", "a", "n", "d">>, <<"i", "n", "i", "t", "i", "a", "l", "-", "c", "o", "m", "m", "a", "n", "d">>,
     <<"c", "o", "n", "f", "i", "r", "m", "-", "c", "l", "o", "s", "e", "-", "s", "u", "r", "f", "a", "c", "e">>, <<"b", "o", "l", "d", "-", "i", "s", "-", "b", "r", "i", "g", "h", "t">>, <<"m", "i", "n", "i", "m", "u", "m", "-", "c", "o", "n", "t", "r", "a", "s", "t">>,
     <<"p", "a", "l", "e", "t", "t", "e">>, <<"i", "n", "v", "e", "r", "t", "-", "s", "e", "l", "e", "c", "t", "i", "o", "n", "-", "f", "g", "-", "b", "g">>, <<"b", "o", "l", "d", "-", "c", "o", "l", "o", "r">>,
     <<"f", "a", "i", "n", "t", "-", "o", "p", "a", "c", "i", "t", "y">>, <<"q", "u", "i", "c", "k", "-", "t", "e", "r", "m", "i", "n", "a", "l", "-", "p", "o", "s", "i", "t", "i", "o", "n">>, <<"v", "t", "-", "k", "a", "m", "-", "a", "l", "l", "o", "w", "e", "d">>,
     <<"u", "n", "f", "o", "c", "u", "s", "e", "d", "-", "s", "p", "l", "i", "t", "-", "f", "i", "l", "l">>, <<"s", "p", "l", "i", "t", "-", "c", "o", "l", "o", "r">>,
     <<"o", "s", "c", "-", "c", "o", "l", "o", "r", "-", "r", "e", "p", "o", "r", "t", "-", "f", "o", "r", "m", "a", "t">>, <<"a", "b", "n", "o", "r", "m", "a", "l", "-", "c", "o", "m", "m", "a", "n", "d", "-", "e", "x", "i", "t", "-", "r", "u", "n", "t", "i", "m", "e">>,
     <<"i", "m", "a", "g", "e", "-", "s", "t", "o", "r", "a", "g", "e", "-", "l", "i", "m", "i", "t">>, <<"c", "u", "s", "t", "o", "m", "-", "s", "h", "a", "d", "e", "r">>,
     <<"c", "u", "s", "t", "o", "m", "-", "s", "h", "a", "d", "e", "r", "-", "a", "n", "i", "m", "a", "t", "i", "o", "n">>, <<"a", "s", "y", "n", "c", "-", "b", "a", "c", "k", "e", "n", "d">>}
    \cup {<<"a", "d", "j", "u", "s", "t", "-">> \o k :
            k \in {<<"c", "e", "l", "l", "-", "w", "i", "d", "t", "h">>, <<"c", "e", "l", "l", "-", "h", "e", "i", "g", "h", "t">>, <<"f", "o", "n", "t", "-", "b", "a", "s", "e", "l", "i", "n", "e">>,
                   <<"u", "n", "d", "e", "r", "l", "i", "n", "e", "-", "p", "o", "s", "i", "t", "i", "o", "n">>, <<"u", "n", "d", "e", "r", "l", "i", "n", "e", "-", "t", "h", "i", "c", "k", "n", "e", "s", "s">>,
                   <<"s", "t", "r", "i", "k", "e", "t", "h", "r", "o", "u", "g", "h", "-", "p", "o", "s", "i", "t", "i", "o", "n">>, <<"s", "t", "r", "i", "k", "e", "t", "h", "r", "o", "u", "g", "h", "-", "t", "h", "i", "c", "k", "n", "e", "s", "s">>,
                   <<"o", "v", "e", "r", "l", "i", "n", "e", "-", "p", "o", "s", "i", "t", "i", "o", "n">>, <<"o", "v", "e", "r", "l", "i", "n", "e", "-", "t", "h", "i", "c", "k", "n", "e", "s", "s">>,
                   <<"c", "u", "r", "s", "o", "r", "-", "t", "h", "i", "c", "k", "n", "e", "s", "s">>, <<"c", "u", "r", "s", "o", "r", "-", "h", "e", "i", "g", "h", "t">>,
                   <<"b", "o", "x", "-", "t", "h", "i", "c", "k", "n", "e", "s", "s">>}}

\* the prefixes the rules test
RulePrefixes ==
    {<<"f", "o", "n", "t", "-">>, <<"c", "u", "r", "s", "o", "r", "-">>, <<"m", "o", "u", "s", "e", "-">>, <<"c", "l", "i", "c", "k", "-">>, <<"c", "l", "i", "p", "b", "o", "a", "r", "d", "-">>,
     <<"c", "o", "p", "y", "-", "o", "n", "-", "s", "e", "l", "e", "c", "t">>, <<"s", "h", "e", "l", "l", "-">>, <<"w", "i", "n", "d", "o", "w", "-">>, <<"r", "e", "s", "i", "z", "e", "-">>,
     <<"f", "u", "l", "l", "s", "c", "r", "e", "e", "n">>, <<"b", "a", "c", "k", "g", "r", "o", "u", "n", "d">>, <<"f", "o", "r", "e", "g", "r", "o", "u", "n", "d">>, <<"s", "e", "l", "e", "c", "t", "i", "o", "n", "-">>,
     <<"m", "a", "c", "o", "s", "-">>, <<"a", "u", "t", "o", "-", "u", "p", "d", "a", "t", "e">>, <<"q", "u", "i", "c", "k", "-", "t", "e", "r", "m", "i", "n", "a", "l">>, <<"g", "t", "k", "-">>, <<"a", "d", "w", "-">>,
     <<"l", "i", "n", "u", "x", "-">>, <<"s", "c", "r", "o", "l", "l", "b", "a", "c", "k">>, <<"s", "c", "r", "o", "l", "l", "-">>, <<"i", "n", "p", "u", "t", "-">>,
     <<"d", "e", "s", "k", "t", "o", "p", "-", "n", "o", "t", "i", "f", "i", "c", "a", "t", "i", "o", "n", "s">>, <<"u", "n", "f", "o", "c", "u", "s", "e", "d", "-", "s", "p", "l", "i", "t">>, <<"g", "r", "a", "p", "h", "e", "m", "e", "-">>,
     <<"f", "r", "e", "e", "t", "y", "p", "e", "-">>, <<"c", "e", "l", "l", "-">>, <<"f", "o", "c", "u", "s", "-">>, <<"u", "n", "f", "o", "c", "u", "s", "e", "d", "-">>}

HasPrefix(k, P) == \E p \in P : Len(p) <= Len(k) /\ SubSeq(k, 1, Len(p)) = p

HasColor(k) ==
    \E i \in 1..(Len(k) - 4) : SubSeq(k, i, i + 4) = <<"c", "o", "l", "o", "r">>

MatchesNoRule(k) ==
    /\ k \notin ExactNames \cup RuleNames
    /\ ~HasPrefix(k, RulePrefixes)
    /\ ~HasColor(k)

\* C16: categorize_key is total: for every key it returns one of the 16
\* categories, and a key that matches no entry of the exact-name table and
\* no prefix or substring rule is Advanced.
C16_CategorizeTotal ==
    Categorized =>
        /\ Cardinality(Category) = 16
        /\ op.ret \in Category
        /\ MatchesNoRule(op.key) => op.ret = "Advanced"

C16_Witness ==
    /\ Categorized
    /\ op.key = <<"t", "o", "t", "a", "l", "l", "y", "-", "u", "n", "k", "n", "o", "w", "n", "-", "k", "e", "y">>
    /\ MatchesNoRule(op.key)
    /\ op.ret = "Advanced"

\* the rules that come before the Colors rule: the exact-name table, font-,
\* cursor-, mouse-/click-, clipboard-/copy-on-select, shell, window-/
\* resize-/fullscreen, and the background prefix
ClaimedBeforeColors(k) ==
    \/ k \in ExactNames
    \/ HasPrefix(k, {<<"f", "o", "n", "t", "-">>, <<"c", "u", "r", "s", "o", "r", "-">>, <<"m", "o", "u", "s", "e", "-">>, <<"c", "l", "i", "c", "k", "-">>,
                     <<"c", "l", "i", "p", "b", "o", "a", "r", "d", "-">>, <<"c", "o", "p", "y", "-", "o", "n", "-", "s", "e", "l", "e", "c", "t">>, <<"s", "h", "e", "l", "l", "-">>,
                     <<"w", "i", "n", "d", "o", "w", "-">>, <<"r", "e", "s", "i", "z", "e", "-">>, <<"f", "u", "l", "l", "s", "c", "r", "e", "e", "n">>,
                     <<"b", "a", "c", "k", "g", "r", "o", "u", "n", "d">>})
    \/ k \in {<<"c", "o", "m", "m", "a", "n", "d">>, <<"w", "a", "i", "t", "-", "a", "f", "t", "e", "r", "-", "c", "o", "m", "m", "a", "n", "d">>, <<"i", "n", "i", "t", "i", "a", "l", "-", "c", "o", "m", "m", "a", "n", "d">>,
              <<"c", "o", "n", "f", "i", "r", "m", "-", "c", "l", "o", "s", "e", "-", "s", "u", "r", "f", "a", "c", "e">>}

\* C17: the Colors rule comes before the Appearance and Advanced rules:
\* every key that contains "color" and is not claimed by an earlier rule is
\* Colors, never Appearance or Advanced; split-color and
\* osc-color-report-format are Colors.
C17_ColorBeforeAppearance ==
    Categorized =>
        /\ (HasColor(op.key) /\ ~ClaimedBeforeColors(op.key))
              => op.ret = "Colors"
        /\ op.key \in {<<"s", "p", "l", "i", "t", "-", "c", "o", "l", "o", "r">>, <<"o", "s", "c", "-", "c", "o", "l", "o", "r", "-", "r", "e", "p", "o", "r", "t", "-", "f", "o", "r", "m", "a", "t">>}
              => op.ret = "Colors"

C17_Witness ==
    /\ Categorized
    /\ op.key = <<"u", "n", "f", "o", "c", "u", "s", "e", "d", "-", "s", "p", "l", "i", "t", "-", "c", "o", "l", "o", "r">>
    /\ HasColor(op.key)
    /\ ~ClaimedBeforeColors(op.key)
    /\ op.ret = "Colors"

----------------------------------------------------------------------------
(* Schema side: the schema parser (src/config/parser.rs).                  *)

\* ConfigOption
ConfigOption(key, default_value, documentation) ==
    [key |-> key,
     default_value |-> default_value,
     documentation |-> documentation,
     value_type |-> infer_type(key, default_value, documentation),
     category |-> categorize_key(key),
     is_repeatable |-> is_repeatable(key)]

\* the locals of parse_show_config before the first line
ParseStart == [options |-> <<>>, doc_lines |-> <<>>, seen_keys |-> {}]

\* the removal of the empty strings that end doc_lines
RECURSIVE pop_empty(_)
pop_empty(doc_lines) ==
    IF doc_lines # <<>> /\ doc_lines[Len(doc_lines)] = <<>>
    THEN pop_empty(SubSeq(doc_lines, 1, Len(doc_lines) - 1))
    ELSE doc_lines

\* the branch of a line that starts with '#'
doc_line(st, line) ==
    LET stripped == Tail(line)
        doc == IF starts_with(stripped, " ") THEN Tail(stripped) ELSE stripped
    IN [st EXCEPT !.doc_lines = Append(@, doc)]

\* A blank-line branch that records the blank line whatever came before.
blank_line_always(st) == [st EXCEPT !.doc_lines = Append(@, <<>>)]

\* the branch of a blank line
blank_line(st) ==
    IF st.doc_lines = <<>> THEN st
    ELSE [st EXCEPT !.doc_lines = Append(@, <<>>)]

\* A key-value branch that keeps the value as it is written, untrimmed.
key_value_line_untrimmed(st, line) ==
    LET i == find_char(line, "=")
        key == trim(SubSeq(line, 1, i - 1))
        value == SubSeq(line, i + 1, Len(line))
        documentation == join(pop_empty(st.doc_lines), <<"\n">>)
        retained ==
            IF key \in st.seen_keys /\ documentation # <<>>
            THEN SelectSeq(st.options, LAMBDA o : o.key # key)
            ELSE st.options
    IN IF key \notin st.seen_keys \/ documentation # <<>>
       THEN [options |-> Append(retained,
                                ConfigOption(key, value, documentation)),
             doc_lines |-> <<>>,
             seen_keys |-> st.seen_keys \cup {key}]
       ELSE [st EXCEPT !.doc_lines = <<>>]

\* A key-value branch in which every later occurrence of a key replaces the
\* option of the earlier one.
key_value_line_last_wins(st, line) ==
    LET i == find_char(line, "=")
        key == trim(SubSeq(line, 1, i - 1))
        value == trim(SubSeq(line, i + 1, Len(line)))
        documentation == join(pop_empty(st.doc_lines), <<"\n">>)
        retained == SelectSeq(st.options, LAMBDA o : o.key # key)
    IN [options |-> Append(retained, ConfigOption(key, value, documentation)),
        doc_lines |-> <<>>,
        seen_keys |-> st.seen_keys \cup {key}]

\* the branch of a line that holds '=': line.split_once('=') and the block
\* that follows it
key_value_line(st, line) ==
    LET i == find_char(line, "=")
        key == trim(SubSeq(line, 1, i - 1))
        value == trim(SubSeq(line, i + 1, Len(line)))
        documentation == join(pop_empty(st.doc_lines), <<"\n">>)
        retained ==
            IF key \in st.seen_keys /\ documentation # <<>>
            THEN SelectSeq(st.options, LAMBDA o : o.key # key)
            ELSE st.options
    IN IF key \notin st.seen_keys \/ documentation # <<>>
       THEN [options |-> Append(retained,
                                ConfigOption(key, value, documentation)),
             doc_lines |-> <<>>,
             seen_keys |-> st.seen_keys \cup {key}]
       ELSE [st EXCEPT !.doc_lines = <<>>]

\* A loop body in which a line of no known kind ends the documentation
\* block.
parse_show_config_line_resets(st, line) ==
    IF starts_with(line, "#") THEN doc_line(st, line)
    ELSE IF trim(line) = <<>> THEN blank_line(st)
    ELSE IF find_char(line, "=") # 0 THEN key_value_line(st, line)
    ELSE [st EXCEPT !.doc_lines = <<>>]

\* the body of the loop of parse_show_config
parse_show_config_line(st, line) ==
    IF starts_with(line, "#") THEN doc_line(st, line)
    ELSE IF trim(line) = <<>> THEN blank_line(st)
    ELSE IF find_char(line, "=") # 0 THEN key_value_line(st, line)
    ELSE st

RECURSIVE parse_show_config_loop(_, _)
parse_show_config_loop(st, ls) ==
    IF ls = <<>> THEN st
    ELSE parse_show_config_loop(parse_show_config_line(st, Head(ls)),
                                Tail(ls))

\* parse_show_config(output): the options of the schema
parse_show_config(output) ==
    parse_show_config_loop(ParseStart, lines(output)).options

----------------------------------------------------------------------------
(* SpecParse: parse_show_config on every text of at most MaxSchemaLines    *)
(* lines, each one of SchemaLines: documentation lines, blank lines,       *)
(* key-value lines that repeat a key, and a line that is none of these.    *)

\* most lines of a text given to parse_show_config
MaxSchemaLines == 4

SchemaLines ==
    {<<"#", " ", "d">>, <<"#", "e">>, <<"#">>, <<>>, <<"#", " ", " ", "*", " ", Backtick, "x", Backtick>>,
     <<"a", " ", "=", " ", "1">>, <<"a", "=", "2", " ">>, <<"k", "e", "y", "b", "i", "n", "d", " ", "=", " ">>, <<"o", "t", "h", "e", "r">>}

\* the text made of the lines ls, each ended by a line feed
RECURSIVE Terminate(_)
Terminate(ls) ==
    IF ls = <<>> THEN <<>> ELSE Head(ls) \o <<"\n">> \o Terminate(Tail(ls))

SchemaTexts == {Terminate(ls) : ls \in SeqsUpTo(SchemaLines, MaxSchemaLines)}

\* parse_show_config(output)
ParseShowConfig ==
    /\ op.name = "input"
    /\ op' = Applied("parse_show_config", parse_show_config(op.docs))
    /\ pre' = Before
    /\ UNCHANGED <<entries, disk>>
    /\ UNCHANGED server

InitParse ==
    /\ entries = new
    /\ disk = NoFile
    /\ op \in {Input(<<>>, <<>>, t) : t \in SchemaTexts}
    /\ pre = [entries |-> new, disk |-> NoFile]
    /\ ServerStart

NextParse == ParseShowConfig

SpecParse == InitParse /\ [][NextParse]_vars

----------------------------------------------------------------------------
(* C18, C19, C20: the schema read off the lines of the text *)

Parsed == op.name = "parse_show_config"

IsDocLine(l) == l # <<>> /\ l[1] = "#"
IsKeyValueLine(l) == ~IsDocLine(l) /\ ~Blank(l) /\ HasChar(l, "=")

\* the key-value lines of the text t, by line number
KeyValueLines(t) ==
    {j \in 1..NumLines(t) : IsKeyValueLine(LineText(t, j))}

FirstEq(l) == Min({i \in 1..Len(l) : l[i] = "="})
KeyAt(t, j) ==
    LET l == LineText(t, j) IN trim(SubSeq(l, 1, FirstEq(l) - 1))
ValueAt(t, j) ==
    LET l == LineText(t, j) IN trim(SubSeq(l, FirstEq(l) + 1, Len(l)))

\* a documentation line without its marker and one following space; a
\* blank line counts as an empty documentation line
DocTextOf(l) ==
    IF ~IsDocLine(l) THEN <<>>
    ELSE IF Len(l) >= 2 /\ l[2] = " " THEN SubSeq(l, 3, Len(l))
    ELSE SubSeq(l, 2, Len(l))

\* the documentation block of the key-value line j: the lines after the
\* previous key-value line, from the first documentation line to the last
\* documentation line with text, blank lines between them included
DocAt(t, j) ==
    LET before == {i \in KeyValueLines(t) : i < j}
        prev == IF before = {} THEN 0 ELSE Max(before)
        block == (prev + 1)..(j - 1)
        docs == {i \in block : IsDocLine(LineText(t, i))}
        full == {i \in docs : DocTextOf(LineText(t, i)) # <<>>}
        part == {i \in block :
                    /\ full # {}
                    /\ Min(docs) <= i
                    /\ i <= Max(full)
                    /\ IsDocLine(LineText(t, i)) \/ Blank(LineText(t, i))}
    IN join([n \in 1..Cardinality(part) |->
                DocTextOf(LineText(t, Nth(part, n)))], <<"\n">>)

\* the key-value lines of the key k, and the one its option comes from: the
\* last documented one after the first, or else the first
Occurrences(t, k) == {j \in KeyValueLines(t) : KeyAt(t, j) = k}
SourceLine(t, k) ==
    LET first == Min(Occurrences(t, k))
        later == {j \in Occurrences(t, k) : j > first /\ DocAt(t, j) # <<>>}
    IN IF later = {} THEN first ELSE Max(later)

SchemaKeys(t) == {KeyAt(t, j) : j \in KeyValueLines(t)}

\* C18: the parsed schema holds one option per key at most, and that option
\* comes from the last occurrence of the key with non-empty documentation
\* when such an occurrence follows the first one, and from the first
\* occurrence otherwise; a later occurrence without documentation never
\* replaces the option already emitted.
C18_OneOptionPerKey ==
    Parsed =>
        /\ \A i, j \in 1..Len(op.ret) :
              op.ret[i].key = op.ret[j].key => i = j
        /\ {op.ret[i].key : i \in 1..Len(op.ret)} = SchemaKeys(op.docs)
        /\ \A i \in 1..Len(op.ret) :
              LET j == SourceLine(op.docs, op.ret[i].key)
              IN /\ op.ret[i].default_value = ValueAt(op.docs, j)
                 /\ op.ret[i].documentation = DocAt(op.docs, j)

C18_Witness ==
    /\ Parsed
    /\ op.docs = <<"a", " ", "=", " ", "1", "\n", "#", " ", "d", "\n", "a", "=", "2", " ", "\n", "a", " ", "=", " ", "1", "\n">>
    /\ Len(op.ret) = 1
    /\ op.ret[1].key = <<"a">>
    /\ op.ret[1].default_value = <<"2">>
    /\ op.ret[1].documentation = <<"d">>

\* the key-value lines whose key no earlier line has
FirstLines(t) ==
    {j \in KeyValueLines(t) :
        \A i \in KeyValueLines(t) : i < j => KeyAt(t, i) # KeyAt(t, j)}

\* the derived fields of an option, and those of keybind
DerivedFields(o) ==
    /\ o.value_type = infer_type(o.key, o.default_value, o.documentation)
    /\ o.category = categorize_key(o.key)
    /\ o.is_repeatable = is_repeatable(o.key)
    /\ o.key = <<"k", "e", "y", "b", "i", "n", "d">>
          => /\ o.value_type = Keybind
             /\ o.category = "Keybindings"
             /\ o.is_repeatable
    /\ o.key = <<"a">> => ~o.is_repeatable /\ o.category = "Advanced"

\* C19 as stated: every line that is no comment, holds '=' and has a key
\* not seen before becomes one option, the options in the order of these
\* lines, with key and default_value the two trimmed sides of the first '='
\* of the line, and value_type, category and is_repeatable computed from
\* them.
C19_FirstLinesBecomeOptions ==
    Parsed =>
        /\ Len(op.ret) = Cardinality(FirstLines(op.docs))
        /\ \A i \in 1..Len(op.ret) :
              LET j == Nth(FirstLines(op.docs), i)
              IN /\ op.ret[i].key = KeyAt(op.docs, j)
                 /\ op.ret[i].default_value = ValueAt(op.docs, j)
                 /\ DerivedFields(op.ret[i])

\* the lines the options come from, one per key
SourceLines(t) == {SourceLine(t, k) : k \in SchemaKeys(t)}

\* C19, amended: there is one option per key of the lines that are no
\* comment and hold '=', the options in the order of the lines they come
\* from (the first line of the key, or the later documented line that
\* replaced it), with key and default_value the two trimmed sides of the
\* first '=' of that line, and value_type, category and is_repeatable
\* computed from them.
C19_SourceLinesBecomeOptions ==
    Parsed =>
        /\ Len(op.ret) = Cardinality(FirstLines(op.docs))
        /\ Len(op.ret) = Cardinality(SourceLines(op.docs))
        /\ \A i \in 1..Len(op.ret) :
              LET j == Nth(SourceLines(op.docs), i)
              IN /\ op.ret[i].key = KeyAt(op.docs, j)
                 /\ op.ret[i].default_value = ValueAt(op.docs, j)
                 /\ DerivedFields(op.ret[i])

C19_Witness ==
    /\ Parsed
    /\ op.docs = <<"a", " ", "=", " ", "1", "\n", "k", "e", "y", "b", "i", "n", "d", " ", "=", " ", "\n", "#", " ", "d", "\n", "a", "=", "2", " ", "\n">>
    /\ Len(op.ret) = 2
    /\ op.ret[1].key = <<"k", "e", "y", "b", "i", "n", "d">>
    /\ op.ret[1].default_value = <<>>
    /\ op.ret[1].is_repeatable
    /\ op.ret[2].key = <<"a">>
    /\ op.ret[2].default_value = <<"2">>
    /\ op.ret[2].value_type = Integer

\* C20: the documentation of an option is built from the documentation
\* lines after the previous key-value line (a dropped duplicate included)
\* and before its own key-value line, without the '#' marker and one
\* following space, joined by line feeds; blank lines met before any
\* documentation line of the block are not part of it, and the
\* documentation never ends with an empty line.
C20_DocumentationOfBlock ==
    Parsed =>
        \A i \in 1..Len(op.ret) :
            LET doc == op.ret[i].documentation
                j == SourceLine(op.docs, op.ret[i].key)
            IN /\ doc = DocAt(op.docs, j)
               /\ ~EndsWith(doc, "\n")

C20_Witness ==
    /\ Parsed
    /\ op.docs = <<"\n", "#", " ", "d", "\n", "#", "\n", "a", " ", "=", " ", "1", "\n">>
    /\ Len(op.ret) = 1
    /\ op.ret[1].documentation = <<"d">>

----------------------------------------------------------------------------
(* C21 *)

IsOtherLine(l) == ~Blank(l) /\ ~IsDocLine(l) /\ ~HasChar(l, "=")

\* the text t without its line j and the line feed that ends it
WithoutLine(t, j) ==
    LET from == IF j = 1 THEN 1 ELSE Nth(Feeds(t), j - 1) + 1
        to == IF j <= Cardinality(Feeds(t)) THEN Nth(Feeds(t), j) ELSE Len(t)
    IN SubSeq(t, 1, from - 1) \o SubSeq(t, to + 1, Len(t))

\* C21: parse_show_config returns a schema for every input, and a line that
\* is not blank, does not start with '#' and holds no '=' is ignored: the
\* schema is the one parsed from the same input without that line.
C21_OtherLinesIgnored ==
    Parsed =>
        /\ \A i \in 1..Len(op.ret) : op.ret[i].key \in SchemaKeys(op.docs)
        /\ \A j \in 1..NumLines(op.docs) :
              IsOtherLine(LineText(op.docs, j))
                 => parse_show_config(WithoutLine(op.docs, j)) = op.ret

C21_Witness ==
    /\ Parsed
    /\ op.docs = <<"#", " ", "d", "\n", "o", "t", "h", "e", "r", "\n", "#", "e", "\n", "a", " ", "=", " ", "1", "\n">>
    /\ Len(op.ret) = 1
    /\ op.ret[1].documentation = <<"d", "\n", "e">>

----------------------------------------------------------------------------
(* The request handlers (src/routes): what each does to the document, and  *)
(* the key it marks unsaved.                                               *)

\* ConfigSchema::find_option
find_option(schema, key) ==
    LET found == {i \in 1..Len(schema) : schema[i].key = key}
    IN IF found = {} THEN None
       ELSE Some(schema[CHOOSE i \in found : \A j \in found : i <= j])

\* AppState.schema: the schema main parses at start
schema ==
    parse_show_config(<<"#", " ", "A", ".", "\n", "a", " ", "=", " ", "x", "\n", "#", " ", "B", ".", "\n", "t", "h", "e", "m", "e", " ", "=", " ", "\n", "#", " ", "C", ".", "\n", "k", "e", "y", "b", "i", "n", "d", " ", "=", " ", "\n">>)

\* An import that tells comments from blank lines before trimming.
import_line_hash_first(line) ==
    IF starts_with(line, "#") THEN Comment(line)
    ELSE IF line = <<>> THEN BlankLine
    ELSE LET i == find_char(line, "=")
         IN IF i # 0
            THEN KeyValue(trim(SubSeq(line, 1, i - 1)),
                          trim(SubSeq(line, i + 1, Len(line))))
            ELSE Comment(line)

\* import_config: the entry one line of the form's text becomes
import_line(line) ==
    IF trim(line) = <<>> THEN BlankLine
    ELSE IF starts_with(line, "#") THEN Comment(line)
    ELSE LET i == find_char(line, "=")
         IN IF i # 0
            THEN KeyValue(trim(SubSeq(line, 1, i - 1)),
                          trim(SubSeq(line, i + 1, Len(line))))
            ELSE Comment(line)

\* import_config: the entries that replace the document
import_config(config_text) ==
    LET ls == lines(config_text)
    IN [i \in 1..Len(ls) |-> import_line(ls[i])]

\* export_config: the text one entry adds to the output
export_entry(e) ==
    IF e.kind = "Comment" THEN e.text \o <<"\n">>
    ELSE IF e.kind = "BlankLine" THEN <<"\n">>
    ELSE e.key \o <<" ", "=", " ">> \o e.value \o <<"\n">>

\* export_config: the response body
RECURSIVE export_config(_)
export_config(es) ==
    IF es = <<>> THEN <<>>
    ELSE export_entry(Head(es)) \o export_config(Tail(es))

\* A set_value that stores the value as the form sends it.
set_value_untrimmed(es, key, form_value) ==
    LET value == form_value
        opt == find_option(schema, key)
        is_default == opt.some /\ opt.val.default_value = value
    IN IF is_default \/ value = <<>> THEN remove(es, key)
       ELSE set(es, key, value)

\* set_value: the document after the request
set_value(es, key, form_value) ==
    LET value == trim(form_value)
        opt == find_option(schema, key)
        is_default == opt.some /\ opt.val.default_value = value
    IN IF is_default \/ value = <<>> THEN remove(es, key)
       ELSE set(es, key, value)

\* delete_value: the document after the request
delete_value(es, key) == remove(es, key)

\* apply_theme: the document after the request
apply_theme(es, name) == set(es, <<"t", "h", "e", "m", "e">>, name)

\* whether add_keybind accepts the form
keybind_accepted(trigger, action) ==
    ~(trim(trigger) = <<>> \/ trim(action) = <<>>)

\* An add_keybind that stores the binding with set.
add_keybind_overwrites(es, trigger, action) ==
    IF ~keybind_accepted(trigger, action) THEN es
    ELSE set(es, <<"k", "e", "y", "b", "i", "n", "d">>, trim(trigger) \o <<"=">> \o trim(action))

\* add_keybind: the document after the request
add_keybind(es, trigger, action) ==
    IF ~keybind_accepted(trigger, action) THEN es
    ELSE Append(es, KeyValue(<<"k", "e", "y", "b", "i", "n", "d">>,
                             trim(trigger) \o <<"=">> \o trim(action)))

\* delete_keybind: the document after the request
delete_keybind(es, trigger, action) ==
    LET target == trim(trigger) \o <<"=">> \o trim(action)
        kept(e) == ~(e.kind = "KeyValue" /\ e.key = <<"k", "e", "y", "b", "i", "n", "d">>
                     /\ e.value = target)
    IN SelectSeq(es, kept)

----------------------------------------------------------------------------
(* The server: requests served concurrently by the threads of the tokio    *)
(* runtime.  Both fields of AppState that change are behind a              *)
(* tokio::sync::RwLock, which is fair: requests for the lock are granted   *)
(* in the order they were made, so a reader that arrives behind a waiting  *)
(* writer waits too.  Asking for a lock is a step of its own, except right *)
(* after work that no other request can see (the arrival of the request,   *)
(* a change made under a write lock that is still held); what a handler    *)
(* does once a lock is granted, up to the guards it drops, is one step.    *)
(* The file is behind no lock of the program: fs::write empties it and     *)
(* then fills it, and read_config opens it, asks for its size and reads it *)
(* call by call; each call of another request sees whatever the file holds *)
(* at that moment.  The process runs with or without a limit on the size   *)
(* of its files; a write at the limit ends the process, unless it was      *)
(* started with the signal of the limit ignored.                           *)

\* most keybind entries the served document gets through add_keybind
MaxKeybinds == 1

\* the characters of a file that one write makes visible to its readers at
\* a time (a page of the file system, on the scale of the documents here:
\* the lines "theme = light" and "keybind = c=d" fill one each)
WriteChunk == 14

\* the size the process may give the file, when it has a limit
FileLimit == 5

\* the characters read_to_string asks for to find the end of the file, the
\* room it adds to a full buffer, and the least capacity of a buffer that
\* holds anything (std::io::default_read_to_end, alloc::raw_vec)
PROBE_SIZE == 32
MIN_NON_ZERO_CAP == 8

\* most lines of a document that a request which can add a line is served on
MaxServedLines == 1

\* a lock can be given in this mode to one more holder
can_grant_shared(lock, mode) == lock.writer = 0

can_grant(lock, mode) ==
    IF mode = "write" THEN lock.writer = 0 /\ lock.readers = {}
    ELSE lock.writer = 0

grant(lock, r, mode) ==
    IF mode = "write" THEN [lock EXCEPT !.writer = r]
    ELSE [lock EXCEPT !.readers = @ \cup {r}]

\* the waiters at the head of the queue take the lock while they can
RECURSIVE wake(_)
wake(lock) ==
    IF lock.queue # <<>> /\ can_grant(lock, Head(lock.queue).mode)
    THEN wake(grant([lock EXCEPT !.queue = Tail(@)],
                    Head(lock.queue).request, Head(lock.queue).mode))
    ELSE lock

\* lock.read().await and lock.write().await, up to the point of waiting
acquire(lock, r, mode) ==
    wake([lock EXCEPT !.queue = Append(@, [request |-> r, mode |-> mode])])

\* the guard of r is dropped
release(lock, r) ==
    wake([lock EXCEPT !.writer = IF @ = r THEN 0 ELSE @,
                      !.readers = @ \ {r}])

LockNames == {"user_config", "unsaved"}

Holds(l, r) == locks[l].writer = r \/ r \in locks[l].readers

Waits(l, r) ==
    \E i \in 1..Len(locks[l].queue) : locks[l].queue[i].request = r

InFlight(r) == reqs[r].pc # 0

\* the process was terminated by SIGXFSZ, inside the write of a save: no
\* request is served from then on
Killed == \E q \in Requests : reqs[q].pc = 10

Quiescent == \A r \in Requests : ~InFlight(r)

\* request r runs handler h and is ready to go on from position n
At(r, h, n) ==
    /\ ~Killed
    /\ reqs[r].handler = h
    /\ reqs[r].pc = n
    /\ \A l \in LockNames : ~Waits(l, r)

Goto(r, n) == [reqs EXCEPT ![r].pc = n]

Return(r, ret) ==
    [reqs EXCEPT ![r].pc = 0, ![r].ret = ret, ![r].sent = 0,
                 ![r].hint = 0, ![r].cap = 0, ![r].buf = <<>>]

\* the markers the handlers put into the unsaved set
KeybindMark == <<"k", "e", "y", "b", "i", "n", "d">>
KeybindDeleteMark == <<"k", "e", "y", "b", "i", "n", "d", "-", "d", "e", "l", "e", "t", "e">>
ImportMark == <<"i", "m", "p", "o", "r", "t">>
ThemeKey == <<"t", "h", "e", "m", "e">>

\* no document gets more than most keybind entries when one more
\* add_keybind is served: the documents in memory, in the file and in the
\* hands of a save are counted, and the add_keybind requests being served
CanBind(most) ==
    LET count(es) == Cardinality(KeyIdx(es, KeybindMark))
        docs == {entries, read_config(disk)}
                  \cup {reqs[q].local : q \in Requests}
                  \cup {read_config(File(reqs[q].buf)) : q \in Requests}
        top == CHOOSE n \in {count(es) : es \in docs} :
                    \A es \in docs : count(es) <= n
        adding == {q \in Requests :
                     InFlight(q) /\ reqs[q].handler = "add_keybind"}
    IN top + Cardinality(adding) < most

\* the handlers that write the file and load it again
Saving == {"save_config", "apply_config"}

\* one of the two handlers is set_value and the other one saves
Races(h, g) ==
    \/ h = "set_value" /\ g \in Saving
    \/ g = "set_value" /\ h \in Saving

\* the first await of a handler: the lock and the mode
FirstLock(h) ==
    IF h \in Saving \/ h \in {"category", "export_config"}
    THEN <<"user_config", "read">>
    ELSE IF h = "index" THEN <<"unsaved", "read">>
    ELSE <<"user_config", "write">>

\* Category::slug of each member of Category::all()
Slugs ==
    {<<"f", "o", "n", "t", "s">>, <<"c", "o", "l", "o", "r", "s">>, <<"w", "i", "n", "d", "o", "w">>, <<"c", "u", "r", "s", "o", "r">>, <<"m", "o", "u", "s", "e">>,
     <<"c", "l", "i", "p", "b", "o", "a", "r", "d">>, <<"k", "e", "y", "b", "i", "n", "d", "i", "n", "g", "s">>, <<"s", "h", "e", "l", "l">>, <<"a", "p", "p", "e", "a", "r", "a", "n", "c", "e">>,
     <<"b", "a", "c", "k", "g", "r", "o", "u", "n", "d">>, <<"m", "a", "c", "o", "s">>, <<"g", "t", "k", "-", "l", "i", "n", "u", "x">>, <<"s", "c", "r", "o", "l", "l", "b", "a", "c", "k">>, <<"i", "n", "p", "u", "t">>,
     <<"t", "e", "r", "m", "i", "n", "a", "l">>, <<"a", "d", "v", "a", "n", "c", "e", "d">>}

\* Category::all().into_iter().find(|c| c.slug() == slug) finds a category
category_found(slug) == slug \in Slugs

\* the request returns at its first poll, before it asks for a lock: an
\* add_keybind without trigger or action, with the toast of the error, and
\* a category with a slug that names none, with the error
Refused(h, key, value) ==
    \/ h = "add_keybind" /\ ~keybind_accepted(key, value)
    \/ h = "category" /\ ~category_found(key)

\* a request arrives, in the first free slot, and runs to its first await,
\* or returns at once when it is refused.  For a set_value and a save that
\* run at the same time the slot of each is recorded with the other.
Start(r, h, key, value, most) ==
    /\ ~Killed
    /\ ~InFlight(r)
    /\ \A q \in Requests : q < r => InFlight(q)
    /\ h = "add_keybind" /\ keybind_accepted(key, value) => CanBind(most)
    /\ LET rejected == Refused(h, key, value)
       IN /\ reqs' = [q \in Requests |->
                IF q = r
                THEN [handler |-> h, pc |-> IF rejected THEN 0 ELSE 1,
                      key |-> key, value |-> value, local |-> <<>>,
                      sent |-> 0, hint |-> 0, cap |-> 0, buf |-> <<>>,
                      body |-> <<>>,
                      ret |-> IF ~rejected THEN ""
                              ELSE IF h = "category" THEN "Err" ELSE "Ok",
                      overlap |-> {p \in Requests \ {r} :
                                     InFlight(p) /\ Races(h, reqs[p].handler)}]
                ELSE IF InFlight(q) /\ Races(h, reqs[q].handler)
                     THEN [reqs[q] EXCEPT !.overlap = @ \cup {r}]
                     ELSE reqs[q]]
          /\ locks' = IF rejected THEN locks
                      ELSE [locks EXCEPT ![FirstLock(h)[1]] =
                                acquire(@, r, FirstLock(h)[2])]
    /\ UNCHANGED <<entries, disk, op, pre, unsaved>>

\* an await of lock l: the request is granted or joins the queue
Ask(r, h, n, l, mode, next) ==
    /\ At(r, h, n)
    /\ locks' = [locks EXCEPT ![l] = acquire(@, r, mode)]
    /\ reqs' = Goto(r, next)
    /\ UNCHANGED <<entries, disk, op, pre, unsaved>>

\* state.mark_unsaved(mark) and state.unsaved_count(), the tail of a
\* mutating handler that has dropped its guard of user_config: positions 2,
\* 3 and 4
MarkAndCount(r, h, mark) ==
    \/ /\ At(r, h, 2)
       /\ unsaved' = unsaved \cup {mark}
       /\ locks' = [locks EXCEPT !.unsaved = release(@, r)]
       /\ reqs' = Goto(r, 3)
       /\ UNCHANGED <<entries, disk, op, pre>>
    \/ Ask(r, h, 3, "unsaved", "read", 4)
    \/ /\ At(r, h, 4)
       /\ locks' = [locks EXCEPT !.unsaved = release(@, r)]
       /\ reqs' = Return(r, "Ok")
       /\ UNCHANGED <<entries, disk, op, pre, unsaved>>

\* the same tail in a handler that holds its write guard of user_config to
\* its end: unsaved_count gives up the lock of the unsaved set when it
\* returns (4), the response is built, and the write guard is dropped at
\* the return of the handler (6)
MarkAndCountHolding(r, h, mark) ==
    \/ /\ At(r, h, 2)
       /\ unsaved' = unsaved \cup {mark}
       /\ locks' = [locks EXCEPT !.unsaved = release(@, r)]
       /\ reqs' = Goto(r, 3)
       /\ UNCHANGED <<entries, disk, op, pre>>
    \/ Ask(r, h, 3, "unsaved", "read", 4)
    \/ /\ At(r, h, 4)
       /\ locks' = [locks EXCEPT !.unsaved = release(@, r)]
       /\ reqs' = Goto(r, 6)
       /\ UNCHANGED <<entries, disk, op, pre, unsaved>>
    \/ /\ At(r, h, 6)
       /\ locks' = [locks EXCEPT !.user_config = release(@, r)]
       /\ reqs' = Return(r, "Ok")
       /\ UNCHANGED <<entries, disk, op, pre, unsaved>>

\* a handler that keeps its write guard to its end: the entries change and
\* mark_unsaved asks for the lock of the unsaved set
MutateHolding(r, h, es) ==
    /\ At(r, h, 1)
    /\ entries' = es
    /\ locks' = [locks EXCEPT !.unsaved = acquire(@, r, "write")]
    /\ reqs' = Goto(r, 2)
    /\ UNCHANGED <<disk, op, pre, unsaved>>

\* a handler that drops its write guard after the change (position 1) and
\* then calls mark_unsaved (position 5)
MutateAndDrop(r, h, es) ==
    \/ /\ At(r, h, 1)
       /\ entries' = es
       /\ locks' = [locks EXCEPT !.user_config = release(@, r)]
       /\ reqs' = Goto(r, 5)
       /\ UNCHANGED <<disk, op, pre, unsaved>>
    \/ Ask(r, h, 5, "unsaved", "write", 2)

\* PUT /api/config/:key
SetValueStep(r) ==
    \/ MutateHolding(r, "set_value",
                     set_value(entries, reqs[r].key, reqs[r].value))
    \/ MarkAndCountHolding(r, "set_value", reqs[r].key)

\* DELETE /api/config/:key
DeleteValueStep(r) ==
    \/ MutateHolding(r, "delete_value", delete_value(entries, reqs[r].key))
    \/ MarkAndCountHolding(r, "delete_value", reqs[r].key)

\* POST /api/themes/apply
ApplyThemeStep(r) ==
    \/ MutateAndDrop(r, "apply_theme", apply_theme(entries, reqs[r].value))
    \/ MarkAndCount(r, "apply_theme", ThemeKey)

\* POST /api/keybinds, with a trigger and an action
AddKeybindStep(r) ==
    \/ MutateAndDrop(r, "add_keybind",
                     add_keybind(entries, reqs[r].key, reqs[r].value))
    \/ MarkAndCount(r, "add_keybind", KeybindMark)

\* POST /api/keybinds/delete
DeleteKeybindStep(r) ==
    \/ MutateAndDrop(r, "delete_keybind",
                     delete_keybind(entries, reqs[r].key, reqs[r].value))
    \/ MarkAndCount(r, "delete_keybind", KeybindDeleteMark)

\* POST /api/import
ImportConfigStep(r) ==
    \/ MutateAndDrop(r, "import_config", import_config(reqs[r].value))
    \/ MarkAndCount(r, "import_config", ImportMark)

\* GET /api/export: the text is built under the read lock and is the body
\* of the response
ExportConfigStep(r) ==
    /\ At(r, "export_config", 1)
    /\ locks' = [locks EXCEPT !.user_config = release(@, r)]
    /\ reqs' = [reqs EXCEPT ![r].pc = 0, ![r].ret = "Ok",
                            ![r].body = export_config(entries)]
    /\ UNCHANGED <<entries, disk, op, pre, unsaved>>

\* no other request is inside a write() of the file: the file system lets
\* one request at a time empty or fill a file
FileFree(r) ==
    \A q \in Requests \ {r} : ~(reqs[q].pc = 2 /\ reqs[q].sent # 0)

\* the file with the first n characters of output over what it holds
Written(output, n) ==
    [disk EXCEPT !.exists = TRUE,
                 !.content = SubSeq(output, 1, n)
                               \o SubSeq(@, n + 1, Len(@))]

\* the write would take the file over the size the process may give it
OverLimit(n) == disk.limit > 0 /\ n > disk.limit

\* a failure of write_config that also empties the unsaved set
WriteConfigFailsAndClears(r, h) ==
    /\ reqs[r].pc \in {1, 2}
    /\ At(r, h, reqs[r].pc)
    /\ unsaved' = {}
    /\ locks' = [locks EXCEPT !.user_config = release(@, r)]
    /\ reqs' = Return(r, "Err")
    /\ UNCHANGED <<entries, disk, op, pre>>

\* write_config(&user_config)? fails with an error of the file system,
\* before it touches the file (position 1), after it emptied it or inside
\* the write (position 2): the file stays as the failure found it, the
\* guard is dropped and the error is the response
WriteConfigFails(r, h) ==
    /\ reqs[r].pc \in {1, 2}
    /\ At(r, h, reqs[r].pc)
    /\ locks' = [locks EXCEPT !.user_config = release(@, r)]
    /\ reqs' = Return(r, "Err")
    /\ UNCHANGED <<entries, disk, op, pre, unsaved>>

\* read_config(&path)? fails, at the opening of the file (position 3) or
\* at one of the reads (4): the error is the response, the file stays
\* written, the document is not loaded and the unsaved set is not cleared
ReadConfigFails(r, h) ==
    /\ reqs[r].pc \in {3, 4}
    /\ At(r, h, reqs[r].pc)
    /\ reqs' = Return(r, "Err")
    /\ UNCHANGED <<entries, disk, op, pre, unsaved, locks>>

\* Vec::try_reserve of a buffer of capacity cap that has to hold required
\* characters (RawVec::grow_amortized)
grow_amortized(cap, required) ==
    LET double == IF 2 * cap > required THEN 2 * cap ELSE required
    IN IF double > MIN_NON_ZERO_CAP THEN double ELSE MIN_NON_ZERO_CAP

\* the next read() of read_to_string is the probe: the buffer, which was
\* given the size the file had when it was opened (hint), is full and has
\* not grown
probes(n, cap, hint) == n = cap /\ cap = hint

\* the capacity of the buffer at a read() that is no probe: a full buffer
\* gets room for PROBE_SIZE more
reserved(n, cap) ==
    IF n = cap THEN grow_amortized(cap, n + PROBE_SIZE) ELSE cap

\* the characters one read() of read_to_string asks for, with n read so
\* far: PROBE_SIZE for the probe, else the room left in the buffer (the
\* most one read asks for, 8192 and more, is not reached)
read_size(n, cap, hint) ==
    IF probes(n, cap, hint) THEN PROBE_SIZE ELSE reserved(n, cap) - n

\* the capacity of the buffer after a read() that found k > 0 characters:
\* the probe is appended to the buffer, which grows to hold it
capacity(n, cap, hint, k) ==
    IF probes(n, cap, hint) THEN grow_amortized(cap, n + k)
    ELSE reserved(n, cap)

\* POST /api/save and POST /api/apply.  Under the read lock fs::write
\* empties the file (position 1) and fills it from its start, WriteChunk
\* characters at a time for whoever reads it (2).  A write() that would
\* pass the size limit of the file stops at the limit and returns short;
\* write_all calls write() again (9), which ends the process with SIGXFSZ
\* (10) or, with the signal ignored, fails with EFBIG.  With no lock held
\* the file is opened and asked for its size (3) and read, one read() at a
\* time, until a read finds nothing more (4); the text read is parsed, and
\* the document replaces the one in memory under the write lock (5, 6);
\* then clear_unsaved empties the unsaved set (7, 8).
SaveStep(r, h) ==
    \/ /\ At(r, h, 1)
       /\ FileFree(r)
       /\ disk' = [disk EXCEPT !.exists = TRUE, !.content = <<>>]
       /\ reqs' = Goto(r, 2)
       /\ UNCHANGED <<entries, op, pre, unsaved, locks>>
    \/ /\ At(r, h, 2)
       /\ FileFree(r)
       /\ LET output == write_config(entries)
              n == IF reqs[r].sent + WriteChunk < Len(output)
                   THEN reqs[r].sent + WriteChunk ELSE Len(output)
          IN IF OverLimit(n)
             THEN /\ disk' = Written(output, disk.limit)
                  /\ locks' = locks
                  /\ reqs' = [reqs EXCEPT ![r].pc = 9,
                                          ![r].sent = disk.limit]
             ELSE /\ disk' = Written(output, n)
                  /\ IF n = Len(output)
                     THEN /\ locks' = [locks EXCEPT
                                          !.user_config = release(@, r)]
                          /\ reqs' = [reqs EXCEPT ![r].pc = 3, ![r].sent = 0]
                     ELSE /\ locks' = locks
                          /\ reqs' = [reqs EXCEPT ![r].sent = n]
       /\ UNCHANGED <<entries, op, pre, unsaved>>
    \/ /\ At(r, h, 9)
       /\ IF disk.xfsz = "ignore"
          THEN /\ locks' = [locks EXCEPT !.user_config = release(@, r)]
               /\ reqs' = Return(r, "Err")
          ELSE /\ locks' = locks
               /\ reqs' = Goto(r, 10)
       /\ UNCHANGED <<entries, disk, op, pre, unsaved>>
    \/ WriteConfigFails(r, h)
    \/ /\ At(r, h, 3)
       /\ reqs' = [reqs EXCEPT ![r].pc = 4, ![r].hint = Len(disk.content),
                               ![r].cap = Len(disk.content),
                               ![r].buf = <<>>]
       /\ UNCHANGED <<entries, disk, op, pre, unsaved, locks>>
    \/ /\ At(r, h, 4)
       /\ LET n == Len(reqs[r].buf)
              size == read_size(n, reqs[r].cap, reqs[r].hint)
              end == IF n + size < Len(disk.content)
                     THEN n + size ELSE Len(disk.content)
              got == SubSeq(disk.content, n + 1, end)
          IN reqs' = IF got = <<>>
                     THEN [reqs EXCEPT
                             ![r].pc = 5, ![r].hint = 0, ![r].cap = 0,
                             ![r].buf = <<>>,
                             ![r].local = read_config(File(reqs[r].buf))]
                     ELSE [reqs EXCEPT
                             ![r].buf = @ \o got,
                             ![r].cap = capacity(n, @, reqs[r].hint,
                                                 Len(got))]
       /\ UNCHANGED <<entries, disk, op, pre, unsaved, locks>>
    \/ ReadConfigFails(r, h)
    \/ Ask(r, h, 5, "user_config", "write", 6)
    \/ /\ At(r, h, 6)
       /\ entries' = reqs[r].local
       /\ locks' = [locks EXCEPT !.user_config = release(@, r)]
       /\ reqs' = [reqs EXCEPT ![r].pc = 7, ![r].local = <<>>]
       /\ UNCHANGED <<disk, op, pre, unsaved>>
    \/ Ask(r, h, 7, "unsaved", "write", 8)
    \/ /\ At(r, h, 8)
       /\ unsaved' = {}
       /\ locks' = [locks EXCEPT !.unsaved = release(@, r)]
       /\ reqs' = Return(r, "Ok")
       /\ UNCHANGED <<entries, disk, op, pre>>

SaveConfigStep(r) == SaveStep(r, "save_config")

ApplyConfigStep(r) == SaveStep(r, "apply_config")

\* GET /category/:slug with the lock of the document asked for while the
\* lock of the unsaved set is held
CategoryStepUnsavedFirst(r) ==
    \/ /\ At(r, "category", 1)
       /\ locks' = [locks EXCEPT
              !.user_config = release(@, r),
              !.unsaved = acquire(@, r, "read")]
       /\ reqs' = Goto(r, 4)
       /\ UNCHANGED <<entries, disk, op, pre, unsaved>>
    \/ Ask(r, "category", 4, "user_config", "read", 2)
    \/ /\ At(r, "category", 2)
       /\ locks' = [locks EXCEPT !.unsaved = release(@, r)]
       /\ reqs' = Goto(r, 3)
       /\ UNCHANGED <<entries, disk, op, pre, unsaved>>
    \/ /\ At(r, "category", 3)
       /\ locks' = [locks EXCEPT !.user_config = release(@, r)]
       /\ reqs' = Return(r, "Ok")
       /\ UNCHANGED <<entries, disk, op, pre, unsaved>>

\* GET /category/:slug, with a slug that names a category: both read
\* guards live to the end of the handler, where the guard of the unsaved
\* set, declared last, is dropped first (2) and the guard of user_config
\* after it (3)
CategoryStep(r) ==
    \/ Ask(r, "category", 1, "unsaved", "read", 2)
    \/ /\ At(r, "category", 2)
       /\ locks' = [locks EXCEPT !.unsaved = release(@, r)]
       /\ reqs' = Goto(r, 3)
       /\ UNCHANGED <<entries, disk, op, pre, unsaved>>
    \/ /\ At(r, "category", 3)
       /\ locks' = [locks EXCEPT !.user_config = release(@, r)]
       /\ reqs' = Return(r, "Ok")
       /\ UNCHANGED <<entries, disk, op, pre, unsaved>>

\* GET /
IndexStep(r) ==
    /\ At(r, "index", 1)
    /\ locks' = [locks EXCEPT !.unsaved = release(@, r)]
    /\ reqs' = Return(r, "Ok")
    /\ UNCHANGED <<entries, disk, op, pre, unsaved>>

\* one step of the request in slot r
Step(r) ==
    \/ SetValueStep(r)
    \/ DeleteValueStep(r)
    \/ ApplyThemeStep(r)
    \/ AddKeybindStep(r)
    \/ DeleteKeybindStep(r)
    \/ ImportConfigStep(r)
    \/ SaveConfigStep(r)
    \/ ApplyConfigStep(r)
    \/ CategoryStep(r)
    \/ IndexStep(r)

\* the requests made of the server: handler, key or trigger, value or action
ServerCalls ==
    {<<"set_value", ThemeKey, <<"l", "i", "g", "h", "t">>>>,
     <<"delete_value", ThemeKey, <<>>>>,
     <<"apply_theme", <<>>, <<"l", "i", "g", "h", "t">>>>,
     <<"add_keybind", <<"c">>, <<"d">>>>,
     <<"add_keybind", <<"c">>, <<>>>>,
     <<"delete_keybind", <<"c">>, <<"d">>>>,
     <<"import_config", <<>>, <<"t", "h", "e", "m", "e", "=", "l", "i", "g", "h", "t">>>>,
     <<"save_config", <<>>, <<>>>>,
     <<"apply_config", <<>>, <<>>>>,
     <<"category", <<"a", "p", "p", "e", "a", "r", "a", "n", "c", "e">>, <<>>>>,
     <<"category", <<>>, <<>>>>,
     <<"index", <<>>, <<>>>>}

\* the file the server finds and the process it runs in: no limit on the
\* size of the file, or a limit of FileLimit characters with SIGXFSZ left
\* at its default or ignored
Environments ==
    {[f EXCEPT !.limit = e[1], !.xfsz = e[2]] :
        f \in {NoFile, File(<<"t", "h", "e", "m", "e", " ", "=", " ", "l", "i", "g", "h", "t", "\n">>)},
        e \in {<<0, "default">>, <<FileLimit, "default">>,
               <<FileLimit, "ignore">>}}

\* main: the document is read from the file before the server starts
InitServer ==
    /\ disk \in Environments
    /\ entries = read_config(disk)
    /\ op = Fresh
    /\ pre = [entries |-> new, disk |-> NoFile, unsaved |-> {}]
    /\ ServerStart

\* the handlers that can add a line to the document: add_keybind appends
\* one, the others one with the key theme when the document has none
Appending == {"set_value", "apply_theme", "import_config", "add_keybind"}

\* no document gets more than most lines when one more request of handler
\* h is served: the documents in memory, in the file and in the hands of a
\* save are counted with the lines that h and the requests being served
\* can add to them
CanGrow(most, h) ==
    LET docs == {entries, read_config(disk)}
                  \cup {reqs[q].local : q \in Requests}
                  \cup {read_config(File(reqs[q].buf)) : q \in Requests}
        served == {q \in Requests : InFlight(q)}
        binds == Cardinality({q \in served :
                                reqs[q].handler = "add_keybind"})
                   + IF h = "add_keybind" THEN 1 ELSE 0
        themed == h # "add_keybind"
                    \/ \E q \in served :
                          reqs[q].handler \in Appending \ {"add_keybind"}
        theme(es) == IF themed /\ KeyIdx(es, ThemeKey) = {} THEN 1 ELSE 0
    IN \A es \in docs : Len(es) + binds + theme(es) <= most

\* any two requests are served at a time
NextServer ==
    \/ \E r \in Requests, c \in ServerCalls :
          /\ Start(r, c[1], c[2], c[3], MaxKeybinds)
          /\ c[1] \in Appending => CanGrow(MaxServedLines, c[1])
    \/ \E r \in Requests : Step(r)

SpecServer == InitServer /\ [][NextServer]_vars

\* request r takes a step of its handler
Steps(r) ==
    /\ InFlight(r)
    /\ \/ reqs'[r].pc # reqs[r].pc
       \/ reqs'[r].sent # reqs[r].sent
       \/ reqs'[r].buf # reqs[r].buf

\* request r returns ret in this step
Returns(r, ret) == InFlight(r) /\ reqs'[r].pc = 0 /\ reqs'[r].ret = ret

\* request r arrives in this step
Arrives(r) == ~InFlight(r) /\ reqs'[r] # reqs[r]

----------------------------------------------------------------------------
(* SpecSaves: two saves at a time, with the requests that grow the         *)
(* document to two lines, in each environment of the server.  A            *)
(* read_config of one save meets the fs::write of the other.               *)

\* most lines of a document that a set_value or add_keybind is served on
MaxSaveLines == 2

SaveCalls ==
    {<<"set_value", ThemeKey, <<"l", "i", "g", "h", "t">>>>,
     <<"add_keybind", <<"c">>, <<"d">>>>,
     <<"save_config", <<>>, <<>>>>,
     <<"apply_config", <<>>, <<>>>>}

SaveStepOf(r) ==
    \/ SetValueStep(r)
    \/ AddKeybindStep(r)
    \/ SaveConfigStep(r)
    \/ ApplyConfigStep(r)

NextSaves ==
    \/ \E r \in Requests, c \in SaveCalls :
          /\ Start(r, c[1], c[2], c[3], MaxKeybinds)
          /\ c[1] \in Appending => CanGrow(MaxSaveLines, c[1])
    \/ \E r \in Requests : SaveStepOf(r)

SpecSaves == InitServer /\ [][NextSaves]_vars

----------------------------------------------------------------------------
(* SpecImport: the server starts with an empty document and no file; the   *)
(* text a client holds, of at most MaxText characters, is imported and the *)
(* document it gives is exported, one request after the other.             *)

InitImport ==
    /\ entries = new
    /\ disk = NoFile
    /\ op \in {Input(<<>>, <<>>, t) : t \in Texts(MaxText)}
    /\ pre = [entries |-> new, disk |-> NoFile, unsaved |-> {}]
    /\ ServerStart

NextImport ==
    \/ \E r \in Requests :
          /\ reqs[r].handler = ""
          /\ Start(r, "import_config", <<>>, op.docs, MaxKeybinds)
    \/ \E r \in Requests : ImportConfigStep(r)
    \/ \E r \in Requests :
          /\ Quiescent
          /\ reqs[r].handler = "import_config"
          /\ Start(r, "export_config", <<>>, <<>>, MaxKeybinds)
    \/ \E r \in Requests : ExportConfigStep(r)

SpecImport == InitImport /\ [][NextImport]_vars

----------------------------------------------------------------------------
(* C28 *)

\* C28: the text interface uses the codec of the file interface:
\* import_config(text) replaces the entries with the entries read_config
\* yields for a file holding that text, and leaves the file alone;
\* export_config returns the bytes write_config would write for the
\* document.
C28_ImportExportSameCodec ==
    [][\A r \in Requests :
          /\ Steps(r) /\ reqs[r].handler = "import_config" =>
                /\ entries' = IF reqs[r].pc = 1
                              THEN read_config(File(reqs[r].value))
                              ELSE entries
                /\ disk' = disk
          /\ Steps(r) /\ reqs[r].handler = "export_config" =>
                /\ Returns(r, "Ok")
                /\ reqs'[r].body = write_config(entries)
                /\ entries' = entries
                /\ disk' = disk]_vars

\* the export of the document that the import of "#", "a=a" gave
C28_Witness ==
    \E r \in Requests :
        /\ reqs[r].handler = "export_config"
        /\ reqs[r].pc = 0
        /\ entries = <<Comment(<<"#">>), KeyValue(<<"a">>, <<"a">>)>>
        /\ reqs[r].body = <<"#", "\n", "a", " ", "=", " ", "a", "\n">>
        /\ unsaved = {ImportMark}

----------------------------------------------------------------------------
(* SpecRoutes: set_value, add_keybind and delete_keybind served one at a   *)
(* time on documents of at most MaxRouteEntries entries, with values,      *)
(* triggers and actions that carry spaces or are empty.  The document the  *)
(* server starts with is built entry by entry before the first request.    *)

\* most entries of a document of the one-request-at-a-time scenario
MaxRouteEntries == 2

RouteKeys == {<<"a">>, <<"b">>}
RouteValues == {<<"x">>, <<" ", "x">>, <<"y", " ">>, <<>>, <<" ">>}
RouteTriggers == {<<"c">>, <<" ", "c">>, <<" ">>, <<>>}
RouteActions == {<<"d">>, <<"d", " ">>, <<>>}
RouteEntries ==
    {KeyValue(<<"a">>, <<"y">>), KeyValue(<<"k", "e", "y", "b", "i", "n", "d">>, <<"c", "=", "d">>),
     KeyValue(<<"k", "e", "y", "b", "i", "n", "d">>, <<"=", "d">>), KeyValue(<<"b">>, <<"c", "=", "d">>),
     Comment(<<"#", "c", "=", "d">>)}

InitRoutes ==
    /\ entries = new
    /\ disk = NoFile
    /\ op = Fresh
    /\ pre = [entries |-> new, disk |-> NoFile, unsaved |-> {}]
    /\ ServerStart

NextRoutes ==
    \/ \E e \in RouteEntries :
          /\ \A r \in Requests : reqs[r].handler = ""
          /\ Push(e, MaxRouteEntries)
    \/ \E r \in Requests, k \in RouteKeys, v \in RouteValues :
          /\ Quiescent
          /\ Start(r, "set_value", k, v, MaxRouteEntries)
    \/ \E r \in Requests, t \in RouteTriggers, a \in RouteActions :
          /\ Quiescent
          /\ Len(entries) < MaxRouteEntries
          /\ Start(r, "add_keybind", t, a, MaxRouteEntries)
    \/ \E r \in Requests, t \in RouteTriggers, a \in RouteActions :
          /\ Quiescent
          /\ Start(r, "delete_keybind", t, a, MaxRouteEntries)
    \/ \E r \in Requests : SetValueStep(r)
    \/ \E r \in Requests : AddKeybindStep(r)
    \/ \E r \in Requests : DeleteKeybindStep(r)

SpecRoutes == InitRoutes /\ [][NextRoutes]_vars

----------------------------------------------------------------------------
(* C29, C30 *)

\* the defaults of the schema, by key
SchemaDefaults == {<<<<"a">>, <<"x">>>>, <<<<"t", "h", "e", "m", "e">>, <<>>>>, <<<<"k", "e", "y", "b", "i", "n", "d">>, <<>>>>}

\* the entries of es that are no key-value entry of the key k
Others(es, k) == Pick(es, (1..Len(es)) \ KeyIdx(es, k))

\* C29: set_value(k, v) trims v; when the trimmed value is empty or is the
\* schema default of k it removes every entry of k, so that get(k) is None
\* afterwards, and for any other value it performs set(k, trimmed v); in
\* both cases k is marked unsaved.
C29_SetValueTrimsAndResets ==
    /\ [][\A r \in Requests :
            Steps(r) /\ reqs[r].handler = "set_value" =>
               LET k == reqs[r].key
                   v == trim(reqs[r].value)
               IN /\ entries' =
                        IF reqs[r].pc # 1 THEN entries
                        ELSE IF v = <<>> \/ <<k, v>> \in SchemaDefaults
                             THEN Others(entries, k)
                             ELSE set(entries, k, v)
                  /\ unsaved' = IF reqs[r].pc = 2 THEN unsaved \cup {k}
                                ELSE unsaved]_vars
    /\ [](\A r \in Requests :
            reqs[r].handler = "set_value" /\ reqs[r].pc = 0 =>
               LET k == reqs[r].key
                   v == trim(reqs[r].value)
               IN /\ IF v = <<>> \/ <<k, v>> \in SchemaDefaults
                     THEN get(entries, k) = None
                     ELSE /\ get_all(entries, k) # <<>>
                          /\ entries[Min(KeyIdx(entries, k))].value = v
                  /\ k \in unsaved)

\* set_value of a value that is the default of its key once trimmed, on a
\* document that had the key
C29_Witness ==
    \E r \in Requests :
        /\ reqs[r].handler = "set_value"
        /\ reqs[r].key = <<"a">>
        /\ reqs[r].value = <<" ", "x">>
        /\ reqs[r].pc = 0
        /\ entries = <<KeyValue(<<"b">>, <<"c", "=", "d">>)>>
        /\ unsaved = {<<"a">>}

\* the keybind entries of es with the value v
Bound(es, v) ==
    {i \in 1..Len(es) :
        es[i].kind = "KeyValue" /\ es[i].key = <<"k", "e", "y", "b", "i", "n", "d">> /\ es[i].value = v}

\* C30 as stated: add_keybind with a non-empty trigger and action appends
\* one KeyValue("keybind", "trigger=action") at the end and leaves every
\* existing entry as it is; with an empty trigger or action it changes
\* neither the document nor the unsaved set.  delete_keybind removes the
\* keybind entries whose value is "trigger=action" and keeps all other
\* entries in order.
C30_KeybindAsSent ==
    [][\A r \in Requests :
          /\ Arrives(r) /\ reqs'[r].handler = "add_keybind" =>
                IF reqs'[r].key # <<>> /\ reqs'[r].value # <<>>
                THEN reqs'[r].pc = 1
                ELSE reqs'[r].pc = 0 /\ entries' = entries
                     /\ unsaved' = unsaved
          /\ Steps(r) /\ reqs[r].handler = "add_keybind" =>
                entries' =
                   IF reqs[r].pc # 1 THEN entries
                   ELSE Append(entries,
                               KeyValue(<<"k", "e", "y", "b", "i", "n", "d">>,
                                        reqs[r].key \o <<"=">> \o reqs[r].value))
          /\ Steps(r) /\ reqs[r].handler = "delete_keybind" =>
                entries' =
                   IF reqs[r].pc # 1 THEN entries
                   ELSE Pick(entries,
                             (1..Len(entries))
                               \ Bound(entries,
                                       reqs[r].key \o <<"=">> \o reqs[r].value))
      ]_vars

\* C30, amended: trigger and action are trimmed first.  add_keybind with a
\* trigger and an action that are not empty after trimming appends one
\* KeyValue("keybind", "trigger=action") of the trimmed texts at the end
\* and leaves every existing entry as it is; when either is empty after
\* trimming it changes neither the document nor the unsaved set.
\* delete_keybind removes the keybind entries whose value is
\* "trigger=action" of the trimmed texts and keeps all other entries in
\* order.
C30_KeybindTrimmed ==
    [][\A r \in Requests :
          /\ Arrives(r) /\ reqs'[r].handler = "add_keybind" =>
                IF trim(reqs'[r].key) # <<>> /\ trim(reqs'[r].value) # <<>>
                THEN reqs'[r].pc = 1
                ELSE reqs'[r].pc = 0 /\ entries' = entries
                     /\ unsaved' = unsaved
          /\ Steps(r) /\ reqs[r].handler = "add_keybind" =>
                entries' =
                   IF reqs[r].pc # 1 THEN entries
                   ELSE Append(entries,
                               KeyValue(<<"k", "e", "y", "b", "i", "n", "d">>,
                                        trim(reqs[r].key) \o <<"=">>
                                          \o trim(reqs[r].value)))
          /\ Steps(r) /\ reqs[r].handler = "delete_keybind" =>
                entries' =
                   IF reqs[r].pc # 1 THEN entries
                   ELSE Pick(entries,
                             (1..Len(entries))
                               \ Bound(entries,
                                       trim(reqs[r].key) \o <<"=">>
                                         \o trim(reqs[r].value)))
      ]_vars

\* add_keybind of " c" and "d " on a document that binds c=d already
C30_Witness ==
    \E r \in Requests :
        /\ reqs[r].handler = "add_keybind"
        /\ reqs[r].key = <<" ", "c">>
        /\ reqs[r].value = <<"d", " ">>
        /\ reqs[r].pc = 0
        /\ entries = <<KeyValue(<<"k", "e", "y", "b", "i", "n", "d">>, <<"c", "=", "d">>),
                       KeyValue(<<"k", "e", "y", "b", "i", "n", "d">>, <<"c", "=", "d">>)>>
        /\ KeybindMark \in unsaved

----------------------------------------------------------------------------
(* SpecLocks: the handlers that take both locks or hold one across an      *)
(* await (set_value, delete_value, save_config, category) and index,       *)
(* served concurrently by a runtime that polls every task that can run.    *)

LockCalls ==
    {<<"set_value", ThemeKey, <<"l", "i", "g", "h", "t">>>>,
     <<"delete_value", ThemeKey, <<>>>>,
     <<"save_config", <<>>, <<>>>>,
     <<"category", <<"a", "p", "p", "e", "a", "r", "a", "n", "c", "e">>, <<>>>>,
     <<"category", <<>>, <<>>>>,
     <<"index", <<>>, <<>>>>}

LockStep(r) ==
    \/ SetValueStep(r)
    \/ DeleteValueStep(r)
    \/ SaveConfigStep(r)
    \/ CategoryStep(r)
    \/ IndexStep(r)

NextLocks ==
    \/ \E r \in Requests, c \in LockCalls :
          Start(r, c[1], c[2], c[3], MaxKeybinds)
    \/ \E r \in Requests : LockStep(r)

\* tokio polls a task whose await can complete: a handler that can take a
\* step takes it in the end
SpecLocks ==
    /\ InitServer
    /\ [][NextLocks]_vars
    /\ \A r \in Requests : WF_vars(LockStep(r))

----------------------------------------------------------------------------
(* C22 .. C27: the requests served concurrently *)

Mutators ==
    {"set_value", "delete_value", "apply_theme", "add_keybind",
     "delete_keybind", "import_config"}

\* the keys a mutating request changes
MutatedKeys(q) ==
    IF q.handler \in {"set_value", "delete_value"} THEN {q.key}
    ELSE IF q.handler = "apply_theme" THEN {ThemeKey}
    ELSE IF q.handler \in {"add_keybind", "delete_keybind"} THEN {KeybindMark}
    ELSE LET es == import_config(q.value)
         IN {es[i].key : i \in {n \in 1..Len(es) : es[n].kind = "KeyValue"}}

\* C22: every request that mutates the document (set_value, delete_value,
\* apply_theme, add_keybind, delete_keybind, import_config) adds the key it
\* mutated to the unsaved set; a key leaves the unsaved set only when a
\* save_config or apply_config succeeds, and that leaves the set empty.
C22_MutatedKeyMarked ==
    [][/\ \A r \in Requests :
            reqs[r].handler \in Mutators /\ Steps(r) /\ reqs[r].pc = 2
            => MutatedKeys(reqs[r]) \subseteq unsaved'
       /\ ~(unsaved \subseteq unsaved') =>
            /\ unsaved' = {}
            /\ \E r \in Requests :
                   reqs[r].handler \in Saving /\ Returns(r, "Ok")]_vars

\* C23: when write_config fails during save_config or apply_config the
\* request ends at once with the error (it does not write again), the
\* document in memory is left as it was and the unsaved set is not cleared.
\* Every step of a save inside write_config (positions 1, 2 and 9) either
\* goes on with the write, or is the end of the process at the size limit
\* of the file, or returns the error with the guard dropped; none of them
\* changes the document or the unsaved set.
C23_FailedWriteChangesNothing ==
    [][\A r \in Requests :
          reqs[r].handler \in Saving /\ reqs[r].pc \in {1, 2, 9} /\ Steps(r)
          => /\ entries' = entries
             /\ unsaved' = unsaved
             /\ \/ reqs'[r].pc \in {2, 3, 9} /\ reqs'[r].ret = ""
                \/ reqs'[r].pc = 10 /\ reqs'[r].ret = "" /\ disk' = disk
                \/ /\ Returns(r, "Err")
                   /\ disk' = disk
                   /\ ~Holds("user_config", r)'
                   /\ ~Killed']_vars

\* apply_config emptied the file and failed in the write that fills it,
\* at no limit of the file
C23_Witness ==
    \E r \in Requests :
        /\ reqs[r].handler = "apply_config"
        /\ reqs[r].pc = 0
        /\ reqs[r].ret = "Err"
        /\ Quiescent
        /\ disk.limit = 0
        /\ disk.exists /\ disk.content = <<>>
        /\ entries = <<KeyValue(<<"t", "h", "e", "m", "e">>, <<"l", "i", "g", "h", "t">>)>>
        /\ unsaved = {<<"t", "h", "e", "m", "e">>}

\* request r is inside its change of the entries
Writing(r) ==
    /\ ~Waits("user_config", r)
    /\ \/ reqs[r].handler \in Mutators /\ reqs[r].pc = 1
       \/ reqs[r].handler \in Saving /\ reqs[r].pc = 6

\* request r is inside its reading of the entries
Reading(r) ==
    /\ ~Waits("user_config", r)
    /\ \/ reqs[r].handler \in Saving /\ reqs[r].pc \in {1, 2}
       \/ reqs[r].handler = "category" /\ reqs[r].pc \in {1, 2, 3}
       \/ reqs[r].handler = "export_config" /\ reqs[r].pc = 1

\* C24: under any interleaving, every change of the entries, the reload of
\* save_config and apply_config included, is made by a request that holds
\* the write lock of the document; while a request is inside its change
\* no other request is inside a change or inside a reading of the document.
C24_ChangesUnderWriteLock ==
    /\ [][entries' # entries =>
            \E r \in Requests :
                Steps(r) /\ Writing(r) /\ locks.user_config.writer = r]_vars
    /\ [](\A r \in Requests :
            Writing(r) =>
               /\ locks.user_config.writer = r
               /\ locks.user_config.readers = {}
               /\ \A q \in Requests \ {r} : ~Writing(q) /\ ~Reading(q))

\* a save is inside its reload, the document it read differs from the one
\* in memory, and another save is reading the file
C24_Witness ==
    \E q, r \in Requests :
        /\ reqs[r].handler \in Saving /\ reqs[r].pc = 6
        /\ Writing(r)
        /\ reqs[r].local # entries
        /\ reqs[q].handler \in Saving /\ reqs[q].pc = 4
        /\ reqs[q].buf # <<>>

\* C25: a value stored by a set_value that has completed is not discarded
\* by a save_config or apply_config that ran at the same time: once both
\* have finished, the value is in the document in memory or in the file.
C25_SaveKeepsConcurrentChange ==
    \A q, r \in Requests :
        /\ reqs[q].handler = "set_value" /\ reqs[q].pc = 0
        /\ reqs[q].ret = "Ok"
        /\ reqs[r].handler \in Saving /\ reqs[r].pc = 0
        /\ reqs[r].ret = "Ok"
        /\ r \in reqs[q].overlap /\ q \in reqs[r].overlap
        => LET stored == Some(trim(reqs[q].value))
           IN \/ get(entries, reqs[q].key) = stored
              \/ get(read_config(disk), reqs[q].key) = stored

\* C26: in every state with no request in flight, if the unsaved set is
\* empty then the document in memory is the document read_config gives
\* for the file.
C26_CleanMeansSaved ==
    Quiescent /\ unsaved = {} => entries = read_config(disk)

====
